---- MODULE Spec2Model ----
(***************************************************************************)
(* A model of the test-generation and scoring pipeline of the UEM          *)
(* placement platform: question_generation_service.py (the orchestrator), *)
(* gemini_client.py (question synthesis), test_routes.py (submit and       *)
(* score), models.py (the persisted entities) and admin_routes.py (manual  *)
(* test creation).                                                         *)
(*                                                                         *)
(* Text is modelled as a sequence of one-character strings, so that        *)
(* strip(), upper() and ILIKE are computed.  The accuracy rate (a float   *)
(* in the code) is an exact fraction <<numerator, denominator>> in lowest  *)
(* terms; floating-point rounding is not modelled.  Time is in hours.      *)
(***************************************************************************)
EXTENDS Integers, Sequences, FiniteSets, TLC

VARIABLES
    now,        \* datetime.utcnow(), in hours
    tests,      \* committed rows of table tests; the index is Test.id
    questions,  \* committed rows of table questions; the index is Question.id
    attempts,   \* committed rows of table test_attempts; the index is the id
    metrics,    \* committed rows of table progress_metrics (a set)
    gen,        \* one generate_test call per caller: position, locals, session
    sub,        \* one submit_test request per worker: position, locals, session
    served,     \* history: (company, year) -> test id the last successful call made
                \* without force_regenerate returned
    hist,       \* history: (user, subject) -> committed section results <<correct, total, count>>
    view        \* the last read request answered: its operation, arguments and response

vars == <<now, tests, questions, attempts, metrics, gen, sub, served, hist, view>>

\* no read request has been answered yet
NoView == [op |-> "none"]

-----------------------------------------------------------------------------
(* Bounds of the model.                                                    *)

MaxTests == 2
MaxAttempts == 2
MaxTime == 36
TickHours == 12

-----------------------------------------------------------------------------
(* Program constants.                                                      *)

CacheDurationHours == 24
DefaultQuestionsPerTest == 20
ChunkThreshold == 15
MaxRetries == 3
MinQuestions == 1
MaxQuestions == 100
RequiredOptions == 4

-----------------------------------------------------------------------------
(* Text.                                                                   *)

ToLower(ch) ==
    CASE ch = "T" -> "t" [] ch = "C" -> "c" [] ch = "S" -> "s"
      [] ch = "N" -> "n" [] ch = "Q" -> "q" [] ch = "A" -> "a"
      [] ch = "B" -> "b" [] ch = "D" -> "d" [] OTHER -> ch

ToUpper(ch) ==
    CASE ch = "t" -> "T" [] ch = "c" -> "C" [] ch = "s" -> "S"
      [] ch = "n" -> "N" [] ch = "q" -> "Q" [] ch = "a" -> "A"
      [] ch = "b" -> "B" [] ch = "d" -> "D" [] OTHER -> ch

Lower(s) == [i \in 1..Len(s) |-> ToLower(s[i])]

Upper(s) == [i \in 1..Len(s) |-> ToUpper(s[i])]

IsSpace(ch) == ch = " "

RECURSIVE LStrip(_)
LStrip(s) ==
    IF s = <<>> THEN <<>>
    ELSE IF IsSpace(Head(s)) THEN LStrip(Tail(s)) ELSE s

RECURSIVE RStrip(_)
RStrip(s) ==
    IF s = <<>> THEN <<>>
    ELSE IF IsSpace(s[Len(s)]) THEN RStrip(SubSeq(s, 1, Len(s) - 1)) ELSE s

Strip(s) == RStrip(LStrip(s))

\* column ILIKE '%needle%': a case-insensitive substring match
ILike(column, needle) ==
    \E i \in 1..(Len(column) - Len(needle) + 1) :
        Lower(SubSeq(column, i, i + Len(needle) - 1)) = Lower(needle)

Min(S) == CHOOSE x \in S : \A y \in S : x <= y

-----------------------------------------------------------------------------
(* JSON objects are functions whose domain is the set of keys present.     *)

Has(obj, key) == key \in DOMAIN obj

Get(obj, key, default) == IF key \in DOMAIN obj THEN obj[key] ELSE default

-----------------------------------------------------------------------------
(* Inputs: company names, requested counts, years.                         *)

NoName == <<>>
Blank == <<" ">>
TCS == <<"T", "C", "S">>
TCSNQT == <<"T", "C", "S", " ", "N", "Q", "T">>

Companies == {NoName, Blank, TCS, TCSNQT}

Years == {2024, 2025}

\* num_questions as the caller passes it: None, an int, or something else
NumNone == [kind |-> "none", val |-> 0]
NumStr == [kind |-> "str", val |-> 0]
NumInt(n) == [kind |-> "int", val |-> n]

Req(c, n, y, f) == [company |-> c, num |-> n, year |-> y, force |-> f]

\* the calls of generate_test the orchestrator's caller makes
GenRequests ==
    {Req(Blank, NumInt(5), 2025, FALSE),
     Req(TCS, NumInt(5), 2025, FALSE),
     Req(TCS, NumInt(5), 2025, TRUE),
     Req(TCS, NumInt(5), 2024, FALSE),
     Req(TCSNQT, NumInt(5), 2025, FALSE),
     Req(TCS, NumNone, 2025, FALSE),
     Req(TCS, NumInt(16), 2025, FALSE)}

-----------------------------------------------------------------------------
(* What the synthesis model may answer: JSON documents, well-formed and    *)
(* malformed in each way _validate_question_json looks for, and text that  *)
(* is not JSON at all.                                                     *)

LabelA == <<"A">>
LabelB == <<"B">>
LabelC == <<"C">>
LabelD == <<"D">>
LabelE == <<"E">>

Opts4 == <<"w", "x", "y", "z">>
Opts3 == <<"w", "x", "y">>

Qn(ans, diff, opts) ==
    [id |-> 1, question_text |-> "q", options |-> opts, correct_answer |-> ans,
     explanation |-> "e", difficulty |-> diff, topic |-> "t"]

QnNoAnswer ==
    [id |-> 1, question_text |-> "q", options |-> Opts4,
     explanation |-> "e", difficulty |-> "easy", topic |-> "t"]

Sec(name, qs) == [section_name |-> name, time_limit_minutes |-> 30, questions |-> qs]

Doc(total, secs) == [company |-> "c", year |-> 2025, total_questions |-> total, sections |-> secs]

GoodOne == Doc(2, <<Sec("Quant", <<Qn(LabelA, "easy", Opts4), Qn(LabelB, "hard", Opts4)>>)>>)
\* the model under-delivers: total_questions says 5, two questions are there
GoodTwo == Doc(5, <<Sec("Quant", <<Qn(LabelD, "medium", Opts4)>>),
                    Sec("Logic", <<Qn(LabelC, "easy", Opts4)>>)>>)
BadNoAnswer == Doc(2, <<Sec("Quant", <<Qn(LabelA, "easy", Opts4), QnNoAnswer>>)>>)
BadThreeOptions == Doc(1, <<Sec("Quant", <<Qn(LabelA, "easy", Opts3)>>)>>)
BadDifficulty == Doc(1, <<Sec("Quant", <<Qn(LabelA, "extreme", Opts4)>>)>>)
BadLabel == Doc(1, <<Sec("Quant", <<Qn(LabelE, "easy", Opts4)>>)>>)
BadEmptySection == Doc(1, <<Sec("Quant", <<Qn(LabelA, "easy", Opts4)>>), Sec("Logic", <<>>)>>)
BadNoSections == Doc(0, <<>>)
BadMissingTop == [company |-> "c", year |-> 2025, sections |-> GoodOne.sections]

GoodDocs == {GoodOne, GoodTwo}
BadDocs == {BadNoAnswer, BadThreeOptions, BadDifficulty, BadLabel, BadEmptySection,
            BadNoSections, BadMissingTop}

NotJson == [parses |-> FALSE, doc |-> BadNoSections]
Json(d) == [parses |-> TRUE, doc |-> d]

Responses == {Json(d) : d \in GoodDocs \cup BadDocs} \cup {NotJson}

-----------------------------------------------------------------------------
(* gemini_client.py: structural validation.  TRUE is "returns True", FALSE *)
(* is "raises QuestionValidationError".                                    *)

ValidateOptionsAtMost(q) == Len(q.options) <= RequiredOptions

ValidateOptions(q) == Len(q.options) = RequiredOptions

ValidateQuestion(q) ==
    /\ \A f \in {"id", "question_text", "options", "correct_answer",
                 "explanation", "difficulty", "topic"} : Has(q, f)
    /\ ValidateOptions(q)
    /\ q.correct_answer \in {LabelA, LabelB, LabelC, LabelD}
    /\ q.difficulty \in {"easy", "medium", "hard"}

ValidateSection(s) ==
    /\ \A f \in {"section_name", "time_limit_minutes", "questions"} : Has(s, f)
    /\ Len(s.questions) # 0
    /\ \A i \in 1..Len(s.questions) : ValidateQuestion(s.questions[i])

ValidateQuestionJson(j) ==
    /\ \A f \in {"company", "year", "total_questions", "sections"} : Has(j, f)
    /\ Len(j.sections) # 0
    /\ \A i \in 1..Len(j.sections) : ValidateSection(j.sections[i])

-----------------------------------------------------------------------------
(* question_generation_service.py: request validation, the cache lookup    *)
(* and the rows _save_test_to_database builds.                             *)

\* as ValidateGenerationRequest, without the upper end of the range
ValidateGenerationRequestNoCeiling(company, num) ==
    /\ ~(company = <<>> \/ Strip(company) = <<>>)
    /\ ~(num.kind # "int" \/ num.val < MinQuestions)

\* TRUE is "returns True", FALSE is "raises QuestionGenerationError"
ValidateGenerationRequest(company, num) ==
    /\ ~(company = <<>> \/ Strip(company) = <<>>)
    /\ ~(num.kind # "int" \/ num.val < MinQuestions \/ num.val > MaxQuestions)

InCacheWindowInverted(created_at, t) == created_at <= t - CacheDurationHours

InCacheWindow(created_at, t) == created_at >= t - CacheDurationHours

QuestionCount(qs, tid) == Cardinality({j \in 1..Len(qs) : qs[j].test_id = tid})

\* the id of the test the lookup returns, 0 for None.  Query.first() has no
\* ORDER BY; the row the database yields first is the one of lowest id.
CheckExistingTest(ts, qs, t, company, year) ==
    LET matches == {i \in 1..Len(ts) :
                        /\ ILike(ts[i].company, company)
                        /\ ts[i].year = year
                        /\ InCacheWindow(ts[i].created_at, t)}
    IN  IF matches = {} THEN 0
        ELSE IF QuestionCount(qs, Min(matches)) > 0 THEN Min(matches) ELSE 0

QuestionRow(tid, section_name, q) ==
    [test_id |-> tid,
     section |-> section_name,
     question_text |-> Get(q, "question_text", ""),
     options |-> Get(q, "options", <<>>),
     correct_answer |-> Get(q, "correct_answer", LabelA),
     explanation |-> Get(q, "explanation", ""),
     difficulty |-> Get(q, "difficulty", "medium")]

RowsOfSection(tid, s) ==
    LET qs == Get(s, "questions", <<>>)
    IN  [i \in 1..Len(qs) |-> QuestionRow(tid, Get(s, "section_name", "Unknown"), qs[i])]

RECURSIVE RowsOfSections(_, _)
RowsOfSections(tid, secs) ==
    IF secs = <<>> THEN <<>>
    ELSE RowsOfSection(tid, Head(secs)) \o RowsOfSections(tid, Tail(secs))

-----------------------------------------------------------------------------
(* The generation orchestrator: generate_test_async, one call per caller.  *)
(* pc is the caller's position: "research" and "synth" are the two awaits, *)
(* "save", "flushed" and "added" the steps of _save_test_to_database.      *)

NoResult == [test_id |-> 0, from_cache |-> FALSE, num_questions |-> 0]

NoTest == [company |-> <<>>, year |-> 0, created_at |-> 0]

IdleGen ==
    [pc |-> "idle", company |-> <<>>, num |-> NumNone, year |-> 0, force |-> FALSE,
     requests |-> 0,        \* synthesis requests this call has sent
     researchCalls |-> 0,   \* research calls this call has made
     badResp |-> FALSE,     \* a synthesis response failed to parse or validate
     qdata |-> BadNoSections,
     tid |-> 0, ptest |-> NoTest, pqs |-> <<>>,   \* the session's pending rows
     result |-> NoResult, err |-> "none",
     at |-> "idle",           \* where the call was when it failed
     pre |-> <<<<>>, <<>>>>,  \* the committed tests and questions when the call began
     prev |-> 0, t0 |-> 0]

Fail(g, kind) ==
    [g EXCEPT !.pc = "error", !.err = kind, !.at = g.pc,
              !.tid = 0, !.ptest = NoTest, !.pqs = <<>>]

\* the branch of generate_test_async that picks the synthesis variant
UsesChunked(num) == num.val > ChunkThreshold

GenStart(p, company, numIn, year, force) ==
    LET num == IF numIn.kind = "none" THEN NumInt(DefaultQuestionsPerTest) ELSE numIn
        g == [IdleGen EXCEPT !.company = company, !.num = num, !.year = year,
                             !.force = force, !.pre = <<tests, questions>>,
                             !.prev = served[<<company, year>>], !.t0 = now]
        hit == IF force THEN 0 ELSE CheckExistingTest(tests, questions, now, company, year)
    IN  /\ gen[p].pc \in {"idle", "done", "error"}
        /\ IF ~ValidateGenerationRequest(company, num)
           THEN /\ gen' = [gen EXCEPT ![p] = Fail(g, "invalid")]
                /\ UNCHANGED served
           ELSE IF hit # 0
           THEN /\ gen' = [gen EXCEPT ![p] =
                        [g EXCEPT !.pc = "done",
                                  !.result = [test_id |-> hit, from_cache |-> TRUE,
                                              num_questions |-> QuestionCount(questions, hit)]]]
                /\ served' = [served EXCEPT ![<<company, year>>] = hit]
           ELSE /\ Len(tests) < MaxTests
                /\ gen' = [gen EXCEPT ![p] = [g EXCEPT !.pc = "research"]]
                /\ UNCHANGED served
        /\ UNCHANGED <<now, tests, questions, attempts, metrics, sub, hist, view>>

\* await self._async_research_company(): the research client returns or raises
GenResearch(p, ok) ==
    /\ gen[p].pc = "research"
    /\ gen' = [gen EXCEPT ![p] =
            IF ok THEN [@ EXCEPT !.pc = "synth", !.researchCalls = @ + 1]
            ELSE Fail([@ EXCEPT !.researchCalls = @ + 1], "research")]
    /\ UNCHANGED <<now, tests, questions, attempts, metrics, sub, served, hist, view>>

\* num_questions > 15: self.gemini_client.generate_questions_chunked is looked
\* up; GeminiClient defines no such method, the lookup raises AttributeError
GenSynthChunked(p) ==
    /\ gen[p].pc = "synth"
    /\ UsesChunked(gen[p].num)
    /\ gen' = [gen EXCEPT ![p] = Fail(@, "no_chunked_method")]
    /\ UNCHANGED <<now, tests, questions, attempts, metrics, sub, served, hist, view>>

\* _retry_api_call around _make_generation_request: the request raises
GenSynthRequestFails(p) ==
    /\ gen[p].pc = "synth"
    /\ ~UsesChunked(gen[p].num)
    /\ gen' = [gen EXCEPT ![p] =
            IF gen[p].requests < MaxRetries - 1
            THEN [@ EXCEPT !.requests = @ + 1]
            ELSE Fail([@ EXCEPT !.requests = @ + 1], "synth_request")]
    /\ UNCHANGED <<now, tests, questions, attempts, metrics, sub, served, hist, view>>

\* what generate_questions does with a response that arrived: parse, validate
AfterResponse(g, r) ==
    IF ~r.parses THEN Fail([g EXCEPT !.badResp = TRUE], "parse")
    ELSE IF ~ValidateQuestionJson(r.doc) THEN Fail([g EXCEPT !.badResp = TRUE], "validation")
    ELSE [g EXCEPT !.pc = "save", !.qdata = r.doc]

GenSynthResponse(p, r) ==
    /\ gen[p].pc = "synth"
    /\ ~UsesChunked(gen[p].num)
    /\ gen' = [gen EXCEPT ![p] = AfterResponse([@ EXCEPT !.requests = @ + 1], r)]
    /\ UNCHANGED <<now, tests, questions, attempts, metrics, sub, served, hist, view>>

\* db.session.add(test); db.session.flush()
GenSaveFlush(p) ==
    /\ gen[p].pc = "save"
    /\ gen' = [gen EXCEPT ![p] =
            [@ EXCEPT !.pc = "flushed", !.tid = Len(tests) + 1,
                      !.ptest = [company |-> gen[p].company, year |-> gen[p].year,
                                 created_at |-> now]]]
    /\ UNCHANGED <<now, tests, questions, attempts, metrics, sub, served, hist, view>>

\* the loop over sections and questions: db.session.add(question)
GenSaveAdd(p) ==
    /\ gen[p].pc = "flushed"
    /\ gen' = [gen EXCEPT ![p] =
            [@ EXCEPT !.pc = "added",
                      !.pqs = RowsOfSections(gen[p].tid,
                                             Get(gen[p].qdata, "sections", <<>>))]]
    /\ UNCHANGED <<now, tests, questions, attempts, metrics, sub, served, hist, view>>

\* db.session.commit() and the result dict
GenSaveCommit(p) ==
    /\ gen[p].pc = "added"
    /\ tests' = Append(tests, gen[p].ptest)
    /\ questions' = questions \o gen[p].pqs
    /\ gen' = [gen EXCEPT ![p] =
            [@ EXCEPT !.pc = "done", !.ptest = NoTest, !.pqs = <<>>,
                      !.result = [test_id |-> gen[p].tid, from_cache |-> FALSE,
                                  num_questions |-> Get(gen[p].qdata, "total_questions", 0)]]]
    /\ served' = IF gen[p].force THEN served
                  ELSE [served EXCEPT ![<<gen[p].company, gen[p].year>>] = gen[p].tid]
    /\ UNCHANGED <<now, attempts, metrics, sub, hist, view>>

\* as GenSaveFail, had flush() been a commit(): the rows sent so far stay
GenSaveFailNoRollback(p) ==
    /\ gen[p].pc \in {"save", "flushed", "added"}
    /\ tests' = IF gen[p].pc = "save" THEN tests ELSE Append(tests, gen[p].ptest)
    /\ questions' = questions \o gen[p].pqs
    /\ gen' = [gen EXCEPT ![p] = Fail(@, "database")]
    /\ UNCHANGED <<now, attempts, metrics, sub, served, hist, view>>

\* flush, add or commit raises: db.session.rollback(), QuestionGenerationError
GenSaveFail(p) ==
    /\ gen[p].pc \in {"save", "flushed", "added"}
    /\ gen' = [gen EXCEPT ![p] = Fail(@, "database")]
    /\ UNCHANGED <<now, tests, questions, attempts, metrics, sub, served, hist, view>>

\* time passes
Tick ==
    /\ now + TickHours <= MaxTime
    /\ now' = now + TickHours
    /\ UNCHANGED <<tests, questions, attempts, metrics, gen, sub, served, hist, view>>

-----------------------------------------------------------------------------
(* Exact fractions for the Float columns: <<numerator, denominator>>.      *)

RECURSIVE Gcd(_, _)
Gcd(a, b) == IF b = 0 THEN a ELSE Gcd(b, a % b)

Frac(n, d) == IF n = 0 THEN <<0, 1>> ELSE <<n \div Gcd(n, d), d \div Gcd(n, d)>>

FInt(k) == <<k, 1>>
FAdd(a, b) == Frac(a[1] * b[2] + b[1] * a[2], a[2] * b[2])
FMul(a, b) == Frac(a[1] * b[1], a[2] * b[2])
FDiv(a, b) == Frac(a[1] * b[2], a[2] * b[1])

-----------------------------------------------------------------------------
(* JSON values of a request body, and str().                               *)

JNull == [t |-> "null", v |-> <<>>]
JStr(chars) == [t |-> "str", v |-> chars]
JNum(n) == [t |-> "num", v |-> n]

Digits == <<"0", "1", "2", "3", "4", "5", "6", "7", "8", "9">>

\* str(n) for an int n >= 0
RECURSIVE IntStr(_)
IntStr(n) == IF n < 10 THEN <<Digits[n + 1]>> ELSE Append(IntStr(n \div 10), Digits[(n % 10) + 1])

\* str(x) for a JSON string or number
Str(x) == IF x.t = "num" THEN IntStr(x.v) ELSE x.v

-----------------------------------------------------------------------------
(* admin_routes.py: api_create_test, the other way a test comes to exist.  *)
(* An admin sends any question list: labels in any case, with blanks,      *)
(* empty (the default for a missing correct_answer), sections of any size. *)

AdminQ(section, ans) ==
    [section |-> section, question_text |-> "q", options |-> Opts4,
     correct_answer |-> ans, explanation |-> "e", difficulty |-> "easy"]

AdminQNoAnswer ==
    [section |-> "Logic", question_text |-> "q", options |-> Opts4,
     explanation |-> "e", difficulty |-> "easy"]

QuizPair == <<AdminQ("Quant", <<"A">>), AdminQ("Quant", <<" ", "b">>)>>
QuizMixed == <<AdminQ("Quant", <<"B">>), AdminQNoAnswer>>

Quizzes == {QuizPair, QuizMixed}

AdminRow(tid, q) ==
    [test_id |-> tid,
     section |-> Get(q, "section", "General"),
     question_text |-> Get(q, "question_text", ""),
     options |-> Get(q, "options", <<>>),
     correct_answer |-> Get(q, "correct_answer", <<>>),
     explanation |-> Get(q, "explanation", ""),
     difficulty |-> Get(q, "difficulty", "medium")]

AdminCreateTest(company, year, quiz) ==
    /\ Len(tests) < MaxTests
    /\ Strip(company) # <<>>
    /\ quiz # <<>>
    /\ tests' = Append(tests, [company |-> Strip(company), year |-> year, created_at |-> now])
    /\ questions' = questions \o [i \in 1..Len(quiz) |-> AdminRow(Len(tests) + 1, quiz[i])]
    /\ UNCHANGED <<now, attempts, metrics, gen, sub, served, hist, view>>

-----------------------------------------------------------------------------
(* test_routes.py: the scoring loop of submit_test.                        *)

\* Question.query.filter_by(test_id=...).all(): the ids, ascending
RECURSIVE IdsFrom(_, _, _)
IdsFrom(qs, tid, i) ==
    IF i > Len(qs) THEN <<>>
    ELSE IF qs[i].test_id = tid THEN <<i>> \o IdsFrom(qs, tid, i + 1)
    ELSE IdsFrom(qs, tid, i + 1)

QuestionIds(qs, tid) == IdsFrom(qs, tid, 1)

UserAnswer(answers, qid) ==
    LET raw == Get(answers, IntStr(qid), JStr(<<>>))
    IN  IF raw.t = "null" THEN <<>> ELSE Upper(Strip(Str(raw)))

\* the column is NOT NULL: the branch for a None correct_answer is never taken
CorrectAnswer(q) == Upper(Strip(q.correct_answer))

\* as IsCorrect, without the test for an empty submission
IsCorrectEmptyAllowed(user_answer, correct_answer) ==
    user_answer = correct_answer

IsCorrect(user_answer, correct_answer) ==
    user_answer = correct_answer /\ user_answer # <<>>

\* section_scores, a dict in insertion order: <<[section, correct, total], ...>>
RECURSIVE Tally(_, _, _)
Tally(scores, section, is_correct) ==
    LET inc == IF is_correct THEN 1 ELSE 0
    IN  IF scores = <<>>
        THEN <<[section |-> section, correct |-> inc, total |-> 1]>>
        ELSE IF Head(scores).section = section
        THEN <<[Head(scores) EXCEPT !.correct = @ + inc, !.total = @ + 1]>> \o Tail(scores)
        ELSE <<Head(scores)>> \o Tally(Tail(scores), section, is_correct)

NoScore == [correct_answers |-> 0, results |-> <<>>, section_scores |-> <<>>]

\* the loop "for question in questions", from the last question back
RECURSIVE ScoreLoop(_, _, _)
ScoreLoop(qs, ids, answers) ==
    IF ids = <<>> THEN NoScore
    ELSE LET qid == ids[Len(ids)]
             acc == ScoreLoop(qs, SubSeq(ids, 1, Len(ids) - 1), answers)
             ua == UserAnswer(answers, qid)
             ca == CorrectAnswer(qs[qid])
             ok == IsCorrect(ua, ca)
         IN  [correct_answers |-> acc.correct_answers + (IF ok THEN 1 ELSE 0),
              results |-> Append(acc.results,
                                 [question_id |-> qid, section |-> qs[qid].section,
                                  user_answer |-> ua, correct_answer |-> ca,
                                  is_correct |-> ok]),
              section_scores |-> Tally(acc.section_scores, qs[qid].section, ok)]

-----------------------------------------------------------------------------
(* models.py: ProgressMetrics.                                             *)

MetricRow(user, subject, rate, n) ==
    [user_id |-> user, subject_area |-> subject, accuracy_rate |-> rate, total_attempts |-> n]

\* update_metrics(new_score, total_questions)
UpdateMetrics(m, new_score, total_questions) ==
    LET current_total_correct ==
            FMul(FMul(FDiv(m.accuracy_rate, FInt(100)), FInt(m.total_attempts)),
                 FInt(total_questions))
        new_total_correct == FAdd(current_total_correct, FInt(new_score))
        new_total_attempts == m.total_attempts + 1
    IN  [m EXCEPT !.accuracy_rate =
                      FMul(FDiv(new_total_correct,
                                FInt(new_total_attempts * total_questions)), FInt(100)),
                  !.total_attempts = new_total_attempts]

\* the row a submission creates for a subject it is the first to touch
NewMetric(user, s) ==
    MetricRow(user, s.section,
              IF s.total > 0 THEN FMul(FDiv(FInt(s.correct), FInt(s.total)), FInt(100))
              ELSE FInt(0),
              1)

MetricOf(ms, user, subject) ==
    {m \in ms : m.user_id = user /\ m.subject_area = subject}

-----------------------------------------------------------------------------
(* test_routes.py: submit_test, one request per worker, each with its own  *)
(* session.  A session's flushed rows are pending until its commit; a      *)
(* query reads the committed rows.                                         *)

Subjects == {"Quant", "Logic"}

NoBody == <<>>
NoAnswers == <<>>

Body(answers) == [answers |-> answers, time_taken |-> 60]
BodyWithoutAnswers == [time_taken |-> 60]

IdleSub ==
    [pc |-> "idle", user |-> 0, test_id |-> 0, answers |-> NoAnswers, time_taken |-> 0,
     score |-> NoScore, total |-> 0,
     k |-> 0,               \* the next entry of section_scores to handle
     pnew |-> {},           \* pending INSERTs into progress_metrics
     pupd |-> {},           \* pending UPDATEs of progress_metrics
     status |-> 0, code |-> "none",
     pre |-> <<<<>>, {}>>,  \* the committed attempts and metrics when the request began
     fault |-> FALSE]       \* the database raised for a reason of its own

Respond(r, status, code) ==
    [r EXCEPT !.pc = "done", !.status = status, !.code = code, !.pnew = {}, !.pupd = {}]

InFlight == {s \in DOMAIN sub : sub[s].pc = "metrics"}

\* from the top of submit_test to db.session.flush()
SubStart(s, user, test_id, data) ==
    LET answers == Get(data, "answers", NoAnswers)
        ids == QuestionIds(questions, test_id)
        r == [IdleSub EXCEPT !.user = user, !.test_id = test_id, !.answers = answers,
                             !.time_taken = Get(data, "time_taken", 0),
                             !.pre = <<attempts, metrics>>]
    IN  /\ sub[s].pc \in {"idle", "done"}
        /\ IF DOMAIN data = {}
           THEN sub' = [sub EXCEPT ![s] = Respond(r, 400, "MISSING_DATA")]
           ELSE IF DOMAIN answers = {}
           THEN sub' = [sub EXCEPT ![s] = Respond(r, 400, "MISSING_ANSWERS")]
           ELSE IF test_id \notin 1..Len(tests)
           THEN sub' = [sub EXCEPT ![s] = Respond(r, 404, "TEST_NOT_FOUND")]
           ELSE IF ids = <<>>
           THEN sub' = [sub EXCEPT ![s] = Respond(r, 404, "NO_QUESTIONS")]
           ELSE /\ Len(attempts) + Cardinality(InFlight) < MaxAttempts
                /\ sub' = [sub EXCEPT ![s] =
                        [r EXCEPT !.pc = "metrics", !.k = 1, !.total = Len(ids),
                                  !.score = ScoreLoop(questions, ids, answers)]]
        /\ UNCHANGED <<now, tests, questions, attempts, metrics, gen, served, hist, view>>

\* one turn of "for section, scores in section_scores.items()"
SubMetric(s) ==
    LET r == sub[s]
        sc == r.score.section_scores[r.k]
        found == MetricOf(metrics, r.user, sc.section)
    IN  /\ r.pc = "metrics"
        /\ r.k <= Len(r.score.section_scores)
        /\ sub' = [sub EXCEPT ![s] =
                IF found # {}
                THEN [r EXCEPT !.k = @ + 1,
                               !.pupd = @ \cup {UpdateMetrics(CHOOSE m \in found : TRUE,
                                                              sc.correct, sc.total)}]
                ELSE [r EXCEPT !.k = @ + 1, !.pnew = @ \cup {NewMetric(r.user, sc)}]]
        /\ UNCHANGED <<now, tests, questions, attempts, metrics, gen, served, hist, view>>

AttemptRow(r) ==
    [user_id |-> r.user, test_id |-> r.test_id, score |-> r.score.correct_answers,
     total_questions |-> r.total, time_taken |-> r.time_taken, answers |-> r.answers]

\* the unique constraint on (user_id, subject_area) refuses a second row
UniqueViolation(ms, pnew) ==
    \E m \in pnew : MetricOf(ms, m.user_id, m.subject_area) # {}

\* the committed progress_metrics after a session's UPDATEs and INSERTs
ApplyMetrics(ms, pupd, pnew) ==
    {m \in ms : \A u \in pupd : ~(u.user_id = m.user_id /\ u.subject_area = m.subject_area)}
        \cup pupd \cup pnew

Record(h, user, scores) ==
    [key \in DOMAIN h |->
        LET hits == {i \in 1..Len(scores) : key = <<user, scores[i].section>>}
        IN  IF hits = {} THEN h[key]
            ELSE LET sc == scores[CHOOSE i \in hits : TRUE]
                 IN  [correct |-> h[key].correct + sc.correct,
                      total |-> h[key].total + sc.total,
                      count |-> h[key].count + 1]]

\* db.session.commit(): IntegrityError rolls the session back
SubCommit(s) ==
    LET r == sub[s]
    IN  /\ r.pc = "metrics"
        /\ r.k > Len(r.score.section_scores)
        /\ IF UniqueViolation(metrics, r.pnew)
           THEN /\ sub' = [sub EXCEPT ![s] = Respond(r, 500, "DATABASE_ERROR")]
                /\ UNCHANGED <<attempts, metrics, hist>>
           ELSE /\ attempts' = Append(attempts, AttemptRow(r))
                /\ metrics' = ApplyMetrics(metrics, r.pupd, r.pnew)
                /\ hist' = Record(hist, r.user, r.score.section_scores)
                /\ sub' = [sub EXCEPT ![s] = Respond(r, 200, "OK")]
        /\ UNCHANGED <<now, tests, questions, gen, served, view>>

\* as SubFail, had flush() been a commit(): the attempt row stays
SubFailNoRollback(s) ==
    /\ sub[s].pc = "metrics"
    /\ attempts' = Append(attempts, AttemptRow(sub[s]))
    /\ sub' = [sub EXCEPT ![s] = Respond([@ EXCEPT !.fault = TRUE], 500, "DATABASE_ERROR")]
    /\ UNCHANGED <<now, tests, questions, metrics, gen, served, hist, view>>

\* a query, the flush or the commit raises: db.session.rollback(), status 500
SubFail(s) ==
    /\ sub[s].pc = "metrics"
    /\ sub' = [sub EXCEPT ![s] = Respond([@ EXCEPT !.fault = TRUE], 500, "DATABASE_ERROR")]
    /\ UNCHANGED <<now, tests, questions, attempts, metrics, gen, served, hist, view>>

\* the answer maps over all the questions of a test, with values from vals
AnswerMaps(tid, vals) ==
    LET ids == QuestionIds(questions, tid)
    IN  [{IntStr(ids[i]) : i \in 1..Len(ids)} -> vals]

-----------------------------------------------------------------------------
(* Spec: one caller of generate_test, one call after another, on a         *)
(* database that starts empty.                                             *)

Init ==
    /\ now = 0
    /\ tests = <<>>
    /\ questions = <<>>
    /\ attempts = <<>>
    /\ metrics = {}
    /\ gen = [p \in {"g1"} |-> IdleGen]
    /\ sub = <<>>
    /\ served = [k \in Companies \X Years |-> 0]
    /\ hist = <<>>
    /\ view = NoView

Next ==
    \/ \E p \in DOMAIN gen, r \in GenRequests :
            GenStart(p, r.company, r.num, r.year, r.force)
    \/ \E p \in DOMAIN gen, ok \in BOOLEAN : GenResearch(p, ok)
    \/ \E p \in DOMAIN gen : GenSynthChunked(p)
    \/ \E p \in DOMAIN gen : GenSynthRequestFails(p)
    \/ \E p \in DOMAIN gen, r \in Responses : GenSynthResponse(p, r)
    \/ \E p \in DOMAIN gen : GenSaveFlush(p)
    \/ \E p \in DOMAIN gen : GenSaveAdd(p)
    \/ \E p \in DOMAIN gen : GenSaveCommit(p)
    \/ \E p \in DOMAIN gen : GenSaveFail(p)
    \/ Tick

Spec == Init /\ [][Next]_vars

-----------------------------------------------------------------------------
(* SubmitSpec: one worker serving submissions of one user, one after       *)
(* another, on tests an admin created; the database may fail at any step.  *)

NoHistory == [correct |-> 0, total |-> 0, count |-> 0]

SubInit(workers, users) ==
    /\ now = 0
    /\ tests = <<>>
    /\ questions = <<>>
    /\ attempts = <<>>
    /\ metrics = {}
    /\ gen = <<>>
    /\ sub = [s \in workers |-> IdleSub]
    /\ served = <<>>
    /\ hist = [key \in users \X Subjects |-> NoHistory]
    /\ view = NoView

SubmitInit == SubInit({"w1"}, {1})

PlainAnswers == {JStr(<<"A">>), JStr(<<"B">>)}

SubmitNext ==
    \/ \E q \in Quizzes : AdminCreateTest(TCS, 2025, q)
    \/ \E s \in DOMAIN sub, t \in 1..MaxTests :
            \E a \in AnswerMaps(t, PlainAnswers) : SubStart(s, 1, t, Body(a))
    \/ \E s \in DOMAIN sub : SubMetric(s)
    \/ \E s \in DOMAIN sub : SubCommit(s)
    \/ \E s \in DOMAIN sub : SubFail(s)

SubmitSpec == SubmitInit /\ [][SubmitNext]_vars

-----------------------------------------------------------------------------
(* ScoreSpec: the scoring of one submission, for every answer map over the *)
(* questions of a test: keys missing, null, blank, in either case, padded. *)

WideAnswers ==
    {JNull, JStr(<<>>), JStr(<<" ">>), JStr(<<" ", "a", " ">>), JStr(<<"A">>), JStr(<<"b">>)}

\* the answer maps over some of the questions of a test
PartialAnswerMaps(tid, vals) ==
    LET ids == QuestionIds(questions, tid)
        keys == {IntStr(ids[i]) : i \in 1..Len(ids)}
    IN  UNION {[K -> vals] : K \in SUBSET keys}

ScoreNext ==
    \/ \E q \in Quizzes : AdminCreateTest(TCS, 2025, q)
    \/ \E s \in DOMAIN sub, t \in 1..MaxTests :
            \E a \in PartialAnswerMaps(t, WideAnswers) :
                Len(attempts) = 0 /\ SubStart(s, 1, t, Body(a))
    \/ \E s \in DOMAIN sub : SubMetric(s)
    \/ \E s \in DOMAIN sub : SubCommit(s)

ScoreSpec == SubmitInit /\ [][ScoreNext]_vars

-----------------------------------------------------------------------------
(* ConcSubmitSpec: two workers serving submissions of the same user for    *)
(* the same test at once; the database never fails for a reason of its own.*)

ConcInit == SubInit({"w1", "w2"}, {1})

ConcNext ==
    \/ Len(tests) = 0 /\ AdminCreateTest(TCS, 2025, QuizPair)
    \/ \E s \in DOMAIN sub : \E a \in AnswerMaps(1, PlainAnswers) : SubStart(s, 1, 1, Body(a))
    \/ \E s \in DOMAIN sub : SubMetric(s)
    \/ \E s \in DOMAIN sub : SubCommit(s)

ConcSubmitSpec == ConcInit /\ [][ConcNext]_vars

-----------------------------------------------------------------------------
(* ApiSpec: a caller of generate_test and a worker serving submissions,    *)
(* with requests that fail validation among the valid ones.                *)

ApiRequests ==
    {Req(NoName, NumInt(5), 2025, FALSE),
     Req(Blank, NumInt(5), 2025, FALSE),
     Req(TCS, NumStr, 2025, FALSE),
     Req(TCS, NumInt(0), 2025, FALSE),
     Req(TCS, NumInt(101), 2025, FALSE),
     Req(TCS, NumInt(1), 2025, FALSE),
     Req(TCS, NumInt(100), 2025, TRUE)}

ApiInit ==
    /\ now = 0
    /\ tests = <<>>
    /\ questions = <<>>
    /\ attempts = <<>>
    /\ metrics = {}
    /\ gen = [p \in {"g1"} |-> IdleGen]
    /\ sub = [s \in {"w1"} |-> IdleSub]
    /\ served = [k \in Companies \X Years |-> 0]
    /\ hist = [key \in {1} \X Subjects |-> NoHistory]
    /\ view = NoView

ApiBodies(t) ==
    {NoBody, BodyWithoutAnswers} \cup {Body(a) : a \in AnswerMaps(t, {JStr(<<"A">>)})}

ApiNext ==
    \/ \E p \in DOMAIN gen, r \in ApiRequests :
            GenStart(p, r.company, r.num, r.year, r.force)
    \/ \E p \in DOMAIN gen, ok \in BOOLEAN : GenResearch(p, ok)
    \/ \E p \in DOMAIN gen : GenSynthChunked(p)
    \/ \E p \in DOMAIN gen : GenSynthRequestFails(p)
    \/ \E p \in DOMAIN gen, r \in {Json(GoodOne), Json(GoodTwo), Json(BadLabel)} :
            GenSynthResponse(p, r)
    \/ \E p \in DOMAIN gen : GenSaveFlush(p)
    \/ \E p \in DOMAIN gen : GenSaveAdd(p)
    \/ \E p \in DOMAIN gen : GenSaveCommit(p)
    \/ \E p \in DOMAIN gen : GenSaveFail(p)
    \/ \E s \in DOMAIN sub, t \in 1..MaxTests :
            \E d \in ApiBodies(t) : SubStart(s, 1, t, d)
    \/ \E s \in DOMAIN sub : SubMetric(s)
    \/ \E s \in DOMAIN sub : SubCommit(s)
    \/ \E s \in DOMAIN sub : SubFail(s)

ApiSpec == ApiInit /\ [][ApiNext]_vars

-----------------------------------------------------------------------------
(* Properties of the generation orchestrator, checked under Spec.          *)

ActiveCalls == {p \in DOMAIN gen : gen[p].pc # "idle"}

RowsOfTest(tid) ==
    LET ids == {j \in 1..Len(questions) : questions[j].test_id = tid}
        F[S \in SUBSET ids] ==
            IF S = {} THEN <<>>
            ELSE LET m == CHOOSE x \in S : \A y \in S : y <= x
                 IN  Append(F[S \ {m}], questions[m])
    IN  F[ids]

\* C2: a call that ended in an error left the committed tests and questions
\* exactly as they were when it began, and every committed test has the whole
\* question set of one synthesized document.
C2_AllOrNothing ==
    /\ \A p \in ActiveCalls :
            gen[p].pc = "error" =>
                /\ tests = gen[p].pre[1]
                /\ questions = gen[p].pre[2]
    /\ \A i \in 1..Len(tests) :
            \E d \in GoodDocs : RowsOfTest(i) = RowsOfSections(i, d.sections)

\* the persist step failed after the test and its questions were sent, with
\* an earlier test already committed
C2_Witness ==
    \E p \in ActiveCalls :
        /\ gen[p].pc = "error"
        /\ gen[p].err = "database"
        /\ gen[p].at = "added"
        /\ Len(tests) >= 1

\* C7: a call for more than 15 questions fails only if the research call, a
\* synthesis request or the persist step failed: with valid data from both
\* clients it ends with a persisted test.
C7_ChunkedGenerationSucceeds ==
    \A p \in ActiveCalls :
        (gen[p].pc = "error" /\ gen[p].num.val > ChunkThreshold)
        => gen[p].err \in {"research", "synth_request", "parse", "validation", "database"}

\* C8: a call that ended on a structurally invalid synthesis response has
\* sent the synthesis request the configured number of times.
C8_ValidationTriggersRetry ==
    \A p \in ActiveCalls :
        (gen[p].pc = "error" /\ gen[p].err = "validation")
        => gen[p].requests = MaxRetries

\* C9: every committed question has 4 options, an answer label among A-D and
\* a difficulty among the three tiers; every committed test has questions;
\* a call that saw an invalid response committed nothing.
C9_ValidationFailsClosed ==
    /\ \A j \in 1..Len(questions) :
            /\ Len(questions[j].options) = 4
            /\ questions[j].correct_answer \in {<<"A">>, <<"B">>, <<"C">>, <<"D">>}
            /\ questions[j].difficulty \in {"easy", "medium", "hard"}
    /\ \A i \in 1..Len(tests) : \E j \in 1..Len(questions) : questions[j].test_id = i
    /\ \A p \in ActiveCalls :
            gen[p].badResp =>
                /\ gen[p].pc = "error"
                /\ tests = gen[p].pre[1]
                /\ questions = gen[p].pre[2]

\* an invalid response was refused while valid questions are in the database
C9_Witness ==
    \E p \in ActiveCalls :
        /\ gen[p].pc = "error"
        /\ gen[p].err = "validation"
        /\ Len(questions) >= 2

-----------------------------------------------------------------------------
(* Properties of submit_test.                                              *)

SectionsOfTest(tid) == {questions[j].section : j \in {i \in 1..Len(questions) : questions[i].test_id = tid}}

\* total_attempts of the row of (user, subject) in ms, 0 when there is none
AttemptsCounted(ms, user, subject) ==
    IF MetricOf(ms, user, subject) = {} THEN 0
    ELSE (CHOOSE m \in MetricOf(ms, user, subject) : TRUE).total_attempts

Answered == {s \in DOMAIN sub : sub[s].pc = "done"}

\* C3: checked under SubmitSpec.  A submission that has not committed, or
\* that ended in an error, leaves the committed attempts and metrics as they
\* were when it began; one that succeeded added exactly its TestAttempt row
\* and raised total_attempts by one in the row of each section of the test,
\* leaving the rows of other subjects alone; and in every committed state the
\* row of a subject counts exactly the committed attempts that touch it.
C3_SubmitAtomic ==
    /\ \A s \in DOMAIN sub :
        LET r == sub[s] IN
        /\ (r.pc = "metrics" \/ (r.pc = "done" /\ r.status # 200))
            => (attempts = r.pre[1] /\ metrics = r.pre[2])
        /\ (r.pc = "done" /\ r.status = 200)
            => /\ Len(attempts) = Len(r.pre[1]) + 1
               /\ SubSeq(attempts, 1, Len(r.pre[1])) = r.pre[1]
               /\ attempts[Len(attempts)].user_id = r.user
               /\ attempts[Len(attempts)].test_id = r.test_id
               /\ \A subject \in Subjects :
                    AttemptsCounted(metrics, r.user, subject) =
                        AttemptsCounted(r.pre[2], r.user, subject)
                            + (IF subject \in SectionsOfTest(r.test_id) THEN 1 ELSE 0)
    /\ \A subject \in Subjects :
            /\ Cardinality(MetricOf(metrics, 1, subject)) <= 1
            /\ AttemptsCounted(metrics, 1, subject) =
                    Cardinality({i \in 1..Len(attempts) :
                                    /\ attempts[i].user_id = 1
                                    /\ subject \in SectionsOfTest(attempts[i].test_id)})

\* the database failed after a metric row of the submission was staged, with
\* an earlier attempt committed
C3_Witness ==
    \E s \in Answered :
        /\ sub[s].status = 500
        /\ sub[s].fault
        /\ sub[s].k > 1
        /\ Len(attempts) >= 1

\* the label a stored or submitted text stands for, "" for none
C4_Label(chars) ==
    IF chars \in {<<>>, <<" ">>} THEN ""
    ELSE IF chars \in {<<"A">>, <<" ", "a", " ">>} THEN "A"
    ELSE IF chars \in {<<"B">>, <<"b">>, <<" ", "b">>} THEN "B"
    ELSE "?"

\* the label submitted for question qid, "" when the key is missing or null
C4_Submitted(answers, qid) ==
    IF IntStr(qid) \notin DOMAIN answers THEN ""
    ELSE IF answers[IntStr(qid)].t = "null" THEN ""
    ELSE C4_Label(answers[IntStr(qid)].v)

C4_Counts(answers, qid) ==
    /\ C4_Submitted(answers, qid) = C4_Label(questions[qid].correct_answer)
    /\ C4_Submitted(answers, qid) # ""

\* C4: checked under ScoreSpec.  A scored submission counts a question
\* correct exactly when the submitted label equals the stored one, both
\* trimmed and in upper case, and is not empty; score is the number of such
\* questions and total_questions the number of questions of the test; the
\* committed TestAttempt carries both.
C4_ScoringRule ==
    \A s \in DOMAIN sub :
        LET r == sub[s]
            ids == {j \in 1..Len(questions) : questions[j].test_id = r.test_id}
        IN  (r.pc = "metrics" \/ (r.pc = "done" /\ r.status = 200))
            => /\ r.total = Cardinality(ids)
               /\ r.score.correct_answers = Cardinality({j \in ids : C4_Counts(r.answers, j)})
               /\ {r.score.results[i].question_id : i \in 1..Len(r.score.results)} = ids
               /\ \A i \in 1..Len(r.score.results) :
                    r.score.results[i].is_correct
                        <=> C4_Counts(r.answers, r.score.results[i].question_id)
               /\ (r.pc = "done") =>
                    /\ attempts[Len(attempts)].score = r.score.correct_answers
                    /\ attempts[Len(attempts)].total_questions = Cardinality(ids)

\* a committed submission with a question whose stored answer is empty and
\* whose submission is blank, not counted, next to a padded lower-case
\* answer that is counted
C4_Witness ==
    \E s \in Answered :
        /\ sub[s].status = 200
        /\ \E i \in 1..Len(sub[s].score.results) :
            LET e == sub[s].score.results[i] IN
            /\ questions[e.question_id].correct_answer = <<>>
            /\ IntStr(e.question_id) \in DOMAIN sub[s].answers
            /\ sub[s].answers[IntStr(e.question_id)] = JStr(<<" ">>)
            /\ ~e.is_correct
        /\ \E i \in 1..Len(sub[s].score.results) :
            LET e == sub[s].score.results[i] IN
            /\ IntStr(e.question_id) \in DOMAIN sub[s].answers
            /\ sub[s].answers[IntStr(e.question_id)] = JStr(<<"b">>)
            /\ e.is_correct

\* C5: checked under SubmitSpec, submissions one after another.  The row of
\* (user, subject) has total_attempts = the number k of committed submissions
\* that touched the subject and accuracy_rate = 100 * (c_1 + ... + c_k) /
\* (t_1 + ... + t_k), the sums of their section results.
C5_WeightedAccuracy ==
    \A m \in metrics :
        LET h == hist[<<m.user_id, m.subject_area>>] IN
        /\ m.total_attempts = h.count
        /\ m.accuracy_rate[1] * h.total = 100 * h.correct * m.accuracy_rate[2]

\* C6: checked under ConcSubmitSpec.  Each of two submissions of one user
\* for one test, served at once, is answered 200 and has its TestAttempt
\* committed.
C6_BothRecorded ==
    \A s \in Answered :
        sub[s].code \notin {"MISSING_DATA", "MISSING_ANSWERS"} => sub[s].status = 200

-----------------------------------------------------------------------------
(* Properties of request validation, checked under ApiSpec.                *)

C10_BadGenerateRequest(g) ==
    \/ g.company \in {<<>>, <<" ">>}
    \/ g.num.kind # "int"
    \/ g.num.val < 1
    \/ g.num.val > 100

\* C10: a generate_test call with an empty or blank company, or a count that
\* is not an integer in 1..100, ends in a validation error having made no
\* research call and no synthesis request, with the committed tests and
\* questions as they were; a submission whose answers map is missing or
\* empty is answered 400 with the committed attempts and metrics as they were.
C10_ValidationNoSideEffects ==
    /\ \A p \in ActiveCalls :
        C10_BadGenerateRequest(gen[p])
            => /\ gen[p].pc = "error"
               /\ gen[p].err = "invalid"
               /\ gen[p].researchCalls = 0
               /\ gen[p].requests = 0
               /\ tests = gen[p].pre[1]
               /\ questions = gen[p].pre[2]
    /\ \A s \in DOMAIN sub :
        (sub[s].pc # "idle" /\ DOMAIN sub[s].answers = {})
            => /\ sub[s].pc = "done"
               /\ sub[s].status = 400
               /\ sub[s].pnew = {} /\ sub[s].pupd = {}
               /\ attempts = sub[s].pre[1]
               /\ metrics = sub[s].pre[2]

\* a count above the range and a body without answers, both refused, with a
\* test and an attempt already committed
C10_Witness ==
    /\ \E p \in ActiveCalls :
        /\ gen[p].err = "invalid"
        /\ gen[p].num = NumInt(101)
        /\ Len(tests) >= 1
    /\ \E s \in Answered :
        /\ sub[s].status = 400
        /\ sub[s].code = "MISSING_ANSWERS"
        /\ Len(attempts) >= 1

-----------------------------------------------------------------------------
(* question_generation_service.py: the exception a failed call surfaces.   *)
(* An exception is its class and the chain of message prefixes it carries. *)

Exc(class, message) == [class |-> class, message |-> message]

\* the exception raised inside the try block of generate_test_async
InnerException(err) ==
    CASE err = "invalid" -> Exc("QuestionGenerationError", <<>>)
      [] err = "research" -> Exc("GoogleSearchAPIError", <<"Failed to research">>)
      [] err = "synth_request" -> Exc("GeminiAPIError", <<"Failed to generate questions", "API call failed">>)
      [] err = "parse" -> Exc("GeminiAPIError", <<"Failed to generate questions", "Failed to parse JSON response">>)
      [] err = "validation" -> Exc("GeminiAPIError", <<"Failed to generate questions">>)
      [] err = "no_chunked_method" -> Exc("AttributeError", <<>>)
      [] err = "database" -> Exc("QuestionGenerationError", <<"Failed to save test to database">>)

\* the two except clauses of generate_test_async
RaisedAsync(err) ==
    LET e == InnerException(err)
    IN  IF e.class \in {"GoogleSearchAPIError", "GeminiAPIError", "QuestionValidationError"}
        THEN Exc("QuestionGenerationError", <<"API error">> \o e.message)
        ELSE Exc("QuestionGenerationError", <<"Test generation failed">> \o e.message)

\* the except clause of generate_test_sync around the async call
RaisedSync(err) ==
    Exc("QuestionGenerationError", <<"Test generation failed">> \o RaisedAsync(err).message)

PipelineErrors == {"research", "synth_request", "parse", "validation", "no_chunked_method"}

-----------------------------------------------------------------------------
(* ErrorSpec: two callers of generate_test, each forcing regeneration, one *)
(* call at a time, so that one caller can hold a pipeline failure while    *)
(* the other holds a failure of the save.                                  *)

ErrorRequests ==
    {Req(TCS, NumInt(5), 2025, TRUE), Req(TCS, NumInt(16), 2025, TRUE)}

ErrorInit ==
    /\ now = 0
    /\ tests = <<>>
    /\ questions = <<>>
    /\ attempts = <<>>
    /\ metrics = {}
    /\ gen = [p \in {"g1", "g2"} |-> IdleGen]
    /\ sub = <<>>
    /\ served = [k \in Companies \X Years |-> 0]
    /\ hist = <<>>
    /\ view = NoView

ErrorNext ==
    \/ \E p \in DOMAIN gen, r \in ErrorRequests :
            /\ \A q \in DOMAIN gen : gen[q].pc \in {"idle", "done", "error"}
            /\ GenStart(p, r.company, r.num, r.year, r.force)
    \/ \E p \in DOMAIN gen, ok \in BOOLEAN : GenResearch(p, ok)
    \/ \E p \in DOMAIN gen : GenSynthChunked(p)
    \/ \E p \in DOMAIN gen : GenSynthRequestFails(p)
    \/ \E p \in DOMAIN gen, r \in {Json(GoodOne), Json(BadLabel), NotJson} :
            GenSynthResponse(p, r)
    \/ \E p \in DOMAIN gen : GenSaveFlush(p)
    \/ \E p \in DOMAIN gen : GenSaveAdd(p)
    \/ \E p \in DOMAIN gen : GenSaveCommit(p)
    \/ \E p \in DOMAIN gen : GenSaveFail(p)

ErrorSpec == ErrorInit /\ [][ErrorNext]_vars

\* C11: checked under ErrorSpec.  When one call failed in the persist step
\* and another in the research or synthesis client, the exceptions the two
\* callers receive differ in class, through generate_test_async and through
\* generate_test_sync.
C11_StorageErrorsDistinct ==
    \A p \in DOMAIN gen, q \in DOMAIN gen :
        (/\ gen[p].pc = "error" /\ gen[p].err = "database"
         /\ gen[q].pc = "error" /\ gen[q].err \in PipelineErrors)
        => /\ RaisedAsync(gen[p].err).class # RaisedAsync(gen[q].err).class
           /\ RaisedSync(gen[p].err).class # RaisedSync(gen[q].err).class

-----------------------------------------------------------------------------
(* question_generation_service.py: generate_multiple_tests_async.  The     *)
(* tasks of one batch are the entries of gen, one per position of the      *)
(* company list; they run on one event loop, so a task is interleaved with *)
(* the others only where it awaits (the research and synthesis clients).   *)

MaxConcurrentOperations == 3

BatchLists ==
    {<<TCS>>, <<TCS, TCSNQT>>, <<TCSNQT, TCS>>, <<TCS, TCS>>, <<Blank, TCS>>}

\* tasks inside "async with semaphore"
Holding == {i \in DOMAIN gen : gen[i].pc \notin {"idle", "done", "error"}}

\* a task is inside the synchronous _save_test_to_database
Saving == \E i \in DOMAIN gen : gen[i].pc \in {"flushed", "added"}

AllFinished == \A i \in DOMAIN gen : gen[i].pc \in {"done", "error"}

\* what generate_with_semaphore returns for a task, without the company
TaskOutcome(g) ==
    IF g.pc = "done"
    THEN [success |-> TRUE, test_id |-> g.result.test_id, from_cache |-> g.result.from_cache,
          error |-> <<>>]
    ELSE [success |-> FALSE, test_id |-> 0, from_cache |-> FALSE,
          error |-> RaisedAsync(g.err).message]

\* company_results: a dict keyed by company, filled in list order
CompanyResults(gs) ==
    [c \in {gs[i].company : i \in DOMAIN gs} |->
        LET last == CHOOSE i \in DOMAIN gs :
                        /\ gs[i].company = c
                        /\ \A j \in DOMAIN gs : gs[j].company = c => j <= i
        IN  TaskOutcome(gs[last])]

\* the dict generate_multiple_tests_async returns once gather has returned
BatchResult(gs) ==
    LET successful == Cardinality({i \in DOMAIN gs : TaskOutcome(gs[i]).success})
        failed == Cardinality({i \in DOMAIN gs : ~TaskOutcome(gs[i]).success})
    IN  [total_companies |-> Len(gs), successful |-> successful, failed |-> failed,
         results |-> CompanyResults(gs), success |-> successful > 0]

\* as BatchStart, without the semaphore
BatchStartUnbounded(i) ==
    /\ gen[i].pc = "idle"
    /\ ~Saving
    /\ GenStart(i, gen[i].company, NumInt(5), 2025, FALSE)

\* a task enters the semaphore and runs generate_test_async up to its first await
BatchStart(i) ==
    /\ gen[i].pc = "idle"
    /\ ~Saving
    /\ Cardinality(Holding) < MaxConcurrentOperations
    /\ GenStart(i, gen[i].company, NumInt(5), 2025, FALSE)

BatchInit ==
    /\ now = 0
    /\ tests = <<>>
    /\ questions = <<>>
    /\ attempts = <<>>
    /\ metrics = {}
    /\ gen \in {[i \in 1..Len(cs) |-> [IdleGen EXCEPT !.company = cs[i]]] : cs \in BatchLists}
    /\ sub = <<>>
    /\ served = [k \in Companies \X Years |-> 0]
    /\ hist = <<>>
    /\ view = NoView

BatchNext ==
    \/ \E i \in DOMAIN gen : BatchStart(i)
    \/ \E i \in DOMAIN gen, ok \in BOOLEAN : ~Saving /\ GenResearch(i, ok)
    \/ \E i \in DOMAIN gen : ~Saving /\ GenSynthRequestFails(i)
    \/ \E i \in DOMAIN gen, r \in {Json(GoodOne), Json(BadLabel)} :
            ~Saving /\ GenSynthResponse(i, r)
    \/ \E i \in DOMAIN gen : ~Saving /\ GenSaveFlush(i)
    \/ \E i \in DOMAIN gen : GenSaveAdd(i)
    \/ \E i \in DOMAIN gen : GenSaveCommit(i)
    \/ \E i \in DOMAIN gen : GenSaveFail(i)

BatchSpec == BatchInit /\ [][BatchNext]_vars

NoRepeats == \A i \in DOMAIN gen, j \in DOMAIN gen : gen[i].company = gen[j].company => i = j

\* C12: checked under BatchSpec.  When every task of the batch has finished,
\* the returned dict has successful + failed = total_companies = the length
\* of the list, and for every position of the list the entry of its company
\* is the outcome of that position's pipeline: its error if it failed, its
\* test if it succeeded.
C12_BatchFailureIsolation ==
    AllFinished =>
        LET b == BatchResult(gen) IN
        /\ b.total_companies = Len(gen)
        /\ b.successful + b.failed = b.total_companies
        /\ \A i \in DOMAIN gen :
            /\ gen[i].company \in DOMAIN b.results
            /\ b.results[gen[i].company] = TaskOutcome(gen[i])

\* the same, for the lists that name no company twice
BatchIsolationWithoutRepeats == NoRepeats => C12_BatchFailureIsolation

-----------------------------------------------------------------------------
(* models.py: User.  No operation modelled here changes the users table.   *)

INFY == <<"I", "N", "F", "Y">>

UserRow(name, year, branch, is_admin) ==
    [name |-> name, year |-> year, branch |-> branch, is_admin |-> is_admin]

\* the rows of table users; the index is the id
Users ==
    <<UserRow(<<"A", "l", " ", "B", "o", " ", "C", "y">>, 3, "CSE", FALSE),
      UserRow(<<"D", "e", "e">>, 3, "ECE", FALSE),
      UserRow(<<"E", "d", " ", " ", "F", "o", "x">>, 4, "CSE", FALSE),
      UserRow(<<"R", "o", "o", "t">>, 4, "CSE", TRUE)>>

-----------------------------------------------------------------------------
(* analytics_service.py: get_leaderboard and what it is made of.           *)

MinLeaderboardTests == 3

PositionLookupLimit == 10000

\* a filter argument that is None, '' or 0 is not applied
NoCompany == <<>>
NoYear == 0
NoBranch == ""

FLess(a, b) == a[1] * b[2] < b[1] * a[2]

\* round(x, places) for scale = 10^places, half to even
Round(x, scale) ==
    LET n == x[1] * scale
        q == n \div x[2]
        r == n % x[2]
    IN  Frac(IF 2 * r < x[2] THEN q
             ELSE IF 2 * r > x[2] THEN q + 1
             ELSE IF q % 2 = 0 THEN q ELSE q + 1,
             scale)

\* str.split(): the words of a text
RECURSIVE Split(_)
Split(s) ==
    LET t == LStrip(s)
    IN  IF t = <<>> THEN <<>>
        ELSE LET spaces == {i \in 1..Len(t) : IsSpace(t[i])}
                 k == IF spaces = {} THEN Len(t) + 1 ELSE Min(spaces)
             IN  <<SubSeq(t, 1, k - 1)>> \o Split(SubSeq(t, k, Len(t)))

Anonymous == <<"A", "n", "o", "n", "y", "m", "o", "u", "s">>

\* a name that is None: no text at all
NameNone == <<"None">>

\* as AnonymizeName, with the initial of the second word
AnonymizeNameSecondWord(full_name) ==
    IF full_name = NameNone \/ full_name = <<>> \/ Strip(full_name) = <<>> THEN Anonymous
    ELSE LET name_parts == Split(Strip(full_name))
         IN  IF Len(name_parts) = 1 THEN name_parts[1]
             ELSE name_parts[1] \o <<" ">> \o <<name_parts[2][1]>> \o <<".">>

\* _anonymize_name
AnonymizeName(full_name) ==
    IF full_name = NameNone \/ full_name = <<>> \/ Strip(full_name) = <<>> THEN Anonymous
    ELSE LET name_parts == Split(Strip(full_name))
         IN  IF Len(name_parts) = 1 THEN name_parts[1]
             ELSE name_parts[1] \o <<" ">> \o <<name_parts[Len(name_parts)][1]>> \o <<".">>

\* the attempts of user u the joins and the company filter keep
JoinedAttempts(u, company_filter) ==
    {i \in 1..Len(attempts) :
        /\ attempts[i].user_id = u
        /\ (company_filter # NoCompany => tests[attempts[i].test_id].company = company_filter)}

RECURSIVE SumOver(_, _)
SumOver(S, f) ==
    IF S = {} THEN FInt(0)
    ELSE LET x == CHOOSE y \in S : TRUE IN FAdd(f[x], SumOver(S \ {x}, f))

\* one row of the grouped query: count, avg, sum
GroupRow(u, company_filter) ==
    LET S == JoinedAttempts(u, company_filter)
        pct == [i \in S |-> FMul(Frac(attempts[i].score, attempts[i].total_questions), FInt(100))]
        secs == [i \in S |-> FInt(attempts[i].time_taken)]
    IN  [id |-> u,
         total_tests |-> Cardinality(S),
         avg_score |-> FDiv(SumOver(S, pct), FInt(Cardinality(S))),
         total_time |-> SumOver(S, secs)[1]]

\* as Grouped, with a HAVING clause that asks for one attempt less
GroupedOneLess(company_filter, year_filter, branch_filter) ==
    {u \in 1..Len(Users) :
        /\ year_filter # NoYear => Users[u].year = year_filter
        /\ branch_filter # NoBranch => Users[u].branch = branch_filter
        /\ Cardinality(JoinedAttempts(u, company_filter)) >= MinLeaderboardTests - 1}

\* the users the WHERE and HAVING clauses keep
Grouped(company_filter, year_filter, branch_filter) ==
    {u \in 1..Len(Users) :
        /\ year_filter # NoYear => Users[u].year = year_filter
        /\ branch_filter # NoBranch => Users[u].branch = branch_filter
        /\ Cardinality(JoinedAttempts(u, company_filter)) >= MinLeaderboardTests}

\* as SortsBefore, without the tie-break on the time spent
SortsBeforeNoTime(a, b) ==
    \/ FLess(b.avg_score, a.avg_score)
    \/ a.avg_score = b.avg_score /\ a.total_tests > b.total_tests

\* ORDER BY avg_score DESC, total_tests DESC, sum(time_taken) ASC
SortsBefore(a, b) ==
    \/ FLess(b.avg_score, a.avg_score)
    \/ a.avg_score = b.avg_score /\ a.total_tests > b.total_tests
    \/ a.avg_score = b.avg_score /\ a.total_tests = b.total_tests /\ a.total_time < b.total_time

\* the orders in which the database may yield the rows: rows equal in all
\* three keys come in any order
QueryOrders(company_filter, year_filter, branch_filter) ==
    LET G == Grouped(company_filter, year_filter, branch_filter)
        rows == [u \in G |-> GroupRow(u, company_filter)]
    IN  {o \in [1..Cardinality(G) -> G] :
            /\ \A i, j \in DOMAIN o : o[i] = o[j] => i = j
            /\ \A i, j \in DOMAIN o : i < j => ~SortsBefore(rows[o[j]], rows[o[i]])}

LeaderboardEntry(global_rank, row) ==
    [rank |-> global_rank,
     user_id |-> row.id,
     name |-> AnonymizeName(Users[row.id].name),
     year |-> Users[row.id].year,
     branch |-> Users[row.id].branch,
     total_tests |-> row.total_tests,
     average_score |-> Round(row.avg_score, 100),
     total_time_hours |-> Round(Frac(row.total_time, 3600), 10)]

\* as LeaderboardOf, with ranks that start again at 1 on every page
LeaderboardOfPageRanks(o, limit, page, company_filter, year_filter, branch_filter) ==
    LET total_count == Len(o)
        offset == (page - 1) * limit
        shown == IF offset >= total_count THEN 0 ELSE Min({limit, total_count - offset})
        total_pages == (total_count + limit - 1) \div limit
    IN  [leaderboard |->
            [i \in 1..shown |->
                LeaderboardEntry(i, GroupRow(o[offset + i], company_filter))],
         pagination |-> [current_page |-> page, total_pages |-> total_pages,
                         total_count |-> total_count, has_next |-> page < total_pages,
                         has_prev |-> page > 1, per_page |-> limit],
         filters |-> [company |-> company_filter, year |-> year_filter,
                      branch |-> branch_filter]]

\* the dict get_leaderboard returns when the query yields its rows in order o
LeaderboardOf(o, limit, page, company_filter, year_filter, branch_filter) ==
    LET total_count == Len(o)
        offset == (page - 1) * limit
        shown == IF offset >= total_count THEN 0 ELSE Min({limit, total_count - offset})
        total_pages == (total_count + limit - 1) \div limit
    IN  [leaderboard |->
            [i \in 1..shown |->
                LeaderboardEntry(offset + i, GroupRow(o[offset + i], company_filter))],
         pagination |-> [current_page |-> page, total_pages |-> total_pages,
                         total_count |-> total_count, has_next |-> page < total_pages,
                         has_prev |-> page > 1, per_page |-> limit],
         filters |-> [company |-> company_filter, year |-> year_filter,
                      branch |-> branch_filter]]

GetLeaderboard(limit, page, company_filter, year_filter, branch_filter) ==
    /\ \E o \in QueryOrders(company_filter, year_filter, branch_filter) :
            view' = [op |-> "get_leaderboard",
                     limit |-> limit, page |-> page, company_filter |-> company_filter,
                     year_filter |-> year_filter, branch_filter |-> branch_filter,
                     out |-> LeaderboardOf(o, limit, page, company_filter, year_filter,
                                           branch_filter)]
    /\ UNCHANGED <<now, tests, questions, attempts, metrics, gen, sub, served, hist>>

\* as PositionOf, with a window that starts one entry above the user
PositionOfNarrow(full, user_id) ==
    LET board == full.leaderboard
        hits == {i \in 1..Len(board) : board[i].user_id = user_id}
    IN  IF hits = {}
        THEN [user_position |-> 0,
              message |-> "User not found in leaderboard. Complete at least 3 tests to appear.",
              nearby_competitors |-> <<>>]
        ELSE LET user_position == board[Min(hits)].rank
                 nearby_start == IF user_position - 2 > 0 THEN user_position - 2 ELSE 0
                 nearby_end == Min({Len(board), user_position + 2})
                 Stripped(e) ==
                    IF e.user_id # user_id
                    THEN [f \in DOMAIN e \ {"user_id"} |-> e[f]]
                    ELSE [f \in DOMAIN e \cup {"is_current_user"} |->
                            IF f = "is_current_user" THEN TRUE ELSE e[f]]
                 own == Stripped(board[Min(hits)])
             IN  [user_position |-> user_position,
                  user_entry |-> [f \in DOMAIN own \ {"user_id"} |-> own[f]],
                  nearby_competitors |->
                      [k \in 1..(nearby_end - nearby_start) |-> Stripped(board[nearby_start + k])],
                  total_participants |-> full.pagination.total_count]

\* what get_user_leaderboard_position makes of the full leaderboard; a
\* user_position of 0 stands for None
PositionOf(full, user_id) ==
    LET board == full.leaderboard
        hits == {i \in 1..Len(board) : board[i].user_id = user_id}
    IN  IF hits = {}
        THEN [user_position |-> 0,
              message |-> "User not found in leaderboard. Complete at least 3 tests to appear.",
              nearby_competitors |-> <<>>]
        ELSE LET user_position == board[Min(hits)].rank
                 nearby_start == IF user_position - 3 > 0 THEN user_position - 3 ELSE 0
                 nearby_end == Min({Len(board), user_position + 2})
                 Stripped(e) ==
                    IF e.user_id # user_id
                    THEN [f \in DOMAIN e \ {"user_id"} |-> e[f]]
                    ELSE [f \in DOMAIN e \cup {"is_current_user"} |->
                            IF f = "is_current_user" THEN TRUE ELSE e[f]]
                 own == Stripped(board[Min(hits)])
             IN  [user_position |-> user_position,
                  user_entry |-> [f \in DOMAIN own \ {"user_id"} |-> own[f]],
                  nearby_competitors |->
                      [k \in 1..(nearby_end - nearby_start) |-> Stripped(board[nearby_start + k])],
                  total_participants |-> full.pagination.total_count]

GetUserLeaderboardPosition(user_id, company_filter, year_filter, branch_filter) ==
    /\ \E o \in QueryOrders(company_filter, year_filter, branch_filter) :
            LET full_leaderboard == LeaderboardOf(o, PositionLookupLimit, 1, company_filter,
                                                  year_filter, branch_filter)
            IN  view' = [op |-> "get_user_leaderboard_position",
                         user_id |-> user_id, company_filter |-> company_filter,
                         year_filter |-> year_filter, branch_filter |-> branch_filter,
                         full_leaderboard |-> full_leaderboard,
                         out |-> PositionOf(full_leaderboard, user_id)]
    /\ UNCHANGED <<now, tests, questions, attempts, metrics, gen, sub, served, hist>>

-----------------------------------------------------------------------------
(* LeaderSpec: the leaderboard queries over a database holding four tests  *)
(* made by an admin and the attempts students have submitted on them.      *)

QuizOf(n) == [i \in 1..n |-> AdminQ("Quant", <<"A">>)]

LeaderQuizSizes == <<4, 5, 7, 9>>

LeaderCompanies == <<TCS, TCS, INFY, TCS>>

LeaderTests == [t \in 1..4 |-> [company |-> LeaderCompanies[t], year |-> 2025, created_at |-> 0]]

QuizRows(t) == [i \in 1..LeaderQuizSizes[t] |-> AdminRow(t, QuizOf(LeaderQuizSizes[t])[i])]

LeaderQuestions == QuizRows(1) \o QuizRows(2) \o QuizRows(3) \o QuizRows(4)

\* an answers map that scores `score` on test t: the first `score` questions
\* answered A, the next one, if any, answered B
ScoredAnswers(t, score) ==
    LET ids == QuestionIds(LeaderQuestions, t)
        n == Min({score + 1, Len(ids)})
    IN  [key \in {IntStr(ids[i]) : i \in 1..n} |->
            LET i == CHOOSE k \in 1..n : IntStr(ids[k]) = key
            IN  IF i <= score THEN JStr(<<"A">>) ELSE JStr(<<"B">>)]

\* the TestAttempt row submit_test commits for such a submission
AttemptOf(u, a) ==
    [user_id |-> u, test_id |-> a[1], score |-> a[2],
     total_questions |-> LeaderQuizSizes[a[1]], time_taken |-> a[3],
     answers |-> ScoredAnswers(a[1], a[2])]

\* what a student has submitted: <<test, score, seconds>> per attempt
ProfileNone == <<>>
ProfileTwo == <<<<1, 4, 600>>, <<2, 5, 600>>>>
ProfileA == <<<<1, 0, 600>>, <<2, 2, 600>>, <<4, 8, 600>>>>
ProfileQuick == <<<<1, 0, 400>>, <<2, 2, 400>>, <<4, 8, 400>>>>
ProfileB == <<<<1, 0, 600>>, <<4, 1, 600>>, <<1, 3, 600>>, <<3, 6, 600>>>>
ProfileTop == <<<<3, 7, 900>>, <<3, 7, 900>>, <<3, 7, 900>>>>

\* who has submitted what: a profile for each of the students 1, 2, 3
Submitted ==
    {<<p1, p2, p3>> : p1 \in {ProfileNone, ProfileTwo, ProfileA, ProfileTop},
                      p2 \in {ProfileNone, ProfileA, ProfileQuick, ProfileB},
                      p3 \in {ProfileTwo, ProfileB, ProfileTop}}

AttemptsOf(u, profile) == [i \in 1..Len(profile) |-> AttemptOf(u, profile[i])]

\* the progress_metrics row the submissions of a profile leave
RECURSIVE MetricAfter(_, _)
MetricAfter(u, profile) ==
    LET last == profile[Len(profile)]
        sc == [section |-> "Quant", correct |-> last[2], total |-> LeaderQuizSizes[last[1]]]
    IN  IF Len(profile) = 1 THEN NewMetric(u, sc)
        ELSE UpdateMetrics(MetricAfter(u, SubSeq(profile, 1, Len(profile) - 1)),
                           sc.correct, sc.total)

RECURSIVE HistoryAfter(_)
HistoryAfter(profile) ==
    IF profile = <<>> THEN NoHistory
    ELSE LET h == HistoryAfter(Tail(profile))
         IN  [correct |-> h.correct + profile[1][2],
              total |-> h.total + LeaderQuizSizes[profile[1][1]],
              count |-> h.count + 1]

LeaderInit ==
    /\ now = 0
    /\ tests = LeaderTests
    /\ questions = LeaderQuestions
    /\ \E ps \in Submitted :
        /\ attempts = AttemptsOf(1, ps[1]) \o AttemptsOf(2, ps[2]) \o AttemptsOf(3, ps[3])
        /\ metrics = {MetricAfter(u, ps[u]) : u \in {v \in 1..3 : ps[v] # <<>>}}
        /\ hist = [key \in (1..3) \X Subjects |->
                    IF key[2] = "Quant" THEN HistoryAfter(ps[key[1]]) ELSE NoHistory]
    /\ gen = <<>>
    /\ sub = <<>>
    /\ served = [k \in Companies \X Years |-> 0]
    /\ view = NoView

PageLimits == {1, 2}
Pages == {1, 2, 3}

\* <<company_filter, year_filter, branch_filter>>
FilterChoices ==
    {<<NoCompany, NoYear, NoBranch>>, <<TCS, NoYear, NoBranch>>, <<INFY, NoYear, NoBranch>>,
     <<NoCompany, 3, NoBranch>>, <<NoCompany, NoYear, "CSE">>, <<TCS, 3, "CSE">>}

LeaderNext ==
    \/ \E limit \in PageLimits, page \in Pages, f \in FilterChoices :
            GetLeaderboard(limit, page, f[1], f[2], f[3])
    \/ \E u \in 1..Len(Users), f \in FilterChoices :
            GetUserLeaderboardPosition(u, f[1], f[2], f[3])

LeaderSpec == LeaderInit /\ [][LeaderNext]_vars

\* every attempt of the leaderboard database is what submit_test computes
\* for its answers
AttemptsAreScored ==
    \A i \in 1..Len(attempts) :
        LET ids == QuestionIds(questions, attempts[i].test_id)
        IN  /\ DOMAIN attempts[i].answers # {}
            /\ attempts[i].total_questions = Len(ids)
            /\ attempts[i].score = ScoreLoop(questions, ids, attempts[i].answers).correct_answers

-----------------------------------------------------------------------------
(* Properties of the leaderboard, checked under LeaderSpec.                *)

\* the number of attempts of user u that match the filters of the request
\* the view answers
QualifyingAttempts(u) ==
    IF \/ (view.year_filter # 0 /\ Users[u].year # view.year_filter)
       \/ (view.branch_filter # "" /\ Users[u].branch # view.branch_filter)
    THEN 0
    ELSE Cardinality({i \in 1..Len(attempts) :
                        /\ attempts[i].user_id = u
                        /\ (view.company_filter = <<>>
                            \/ tests[attempts[i].test_id].company = view.company_filter)})

Listed == {view.out.leaderboard[i].user_id : i \in 1..Len(view.out.leaderboard)}

\* C13: every user a get_leaderboard result lists has at least 3 attempts
\* that match the filters; the users with at least 3 such attempts are
\* exactly the ones counted as ranked, and all of them are listed when the
\* page is large enough; the position lookup gives a position to those
\* users and None to every other.
C13_EligibilityGate ==
    /\ view.op = "get_leaderboard" =>
        /\ \A u \in Listed : QualifyingAttempts(u) >= 3
        /\ view.out.pagination.total_count =
                Cardinality({u \in 1..Len(Users) : QualifyingAttempts(u) >= 3})
        /\ (view.page = 1 /\ view.limit >= view.out.pagination.total_count)
            => Listed = {u \in 1..Len(Users) : QualifyingAttempts(u) >= 3}
    /\ view.op = "get_user_leaderboard_position" =>
        /\ QualifyingAttempts(view.user_id) < 3 =>
            /\ view.out.user_position = 0
            /\ view.out.nearby_competitors = <<>>
        /\ QualifyingAttempts(view.user_id) >= 3 => view.out.user_position >= 1

\* under a company filter, a student with three attempts on other companies'
\* tests is left out while another student is listed
C13_Witness ==
    /\ view.op = "get_leaderboard"
    /\ view.company_filter = TCS
    /\ Listed # {}
    /\ \E u \in 1..Len(Users) :
        /\ u \notin Listed
        /\ QualifyingAttempts(u) < 3
        /\ Cardinality({i \in 1..Len(attempts) : attempts[i].user_id = u}) >= 3

\* the row of the grouped query behind the i-th entry of the leaderboard in
\* the view
RowBehind(i) == GroupRow(view.out.leaderboard[i].user_id, view.company_filter)

\* C14, as stated: consecutive entries are non-increasing in average_score;
\* with equal average_score, non-increasing in total_tests; tied on both,
\* non-decreasing in the time spent.
C14_OrderedAsReported ==
    view.op = "get_leaderboard" =>
        \A i \in 1..(Len(view.out.leaderboard) - 1) :
            LET a == view.out.leaderboard[i]
                b == view.out.leaderboard[i + 1]
            IN  /\ ~FLess(a.average_score, b.average_score)
                /\ a.average_score = b.average_score => a.total_tests >= b.total_tests
                /\ (a.average_score = b.average_score /\ a.total_tests = b.total_tests)
                    => RowBehind(i).total_time <= RowBehind(i + 1).total_time

\* C14, amended: the reported average_score is non-increasing along the
\* entries, and the entries are ordered by the average the query computes,
\* before it is rounded for the entry: with equal computed averages,
\* non-increasing in total_tests; tied on both, non-decreasing in the time
\* spent.
C14_OrderedAsComputed ==
    view.op = "get_leaderboard" =>
        \A i \in 1..(Len(view.out.leaderboard) - 1) :
            LET a == RowBehind(i)
                b == RowBehind(i + 1)
            IN  /\ ~FLess(view.out.leaderboard[i].average_score,
                          view.out.leaderboard[i + 1].average_score)
                /\ ~FLess(a.avg_score, b.avg_score)
                /\ a.avg_score = b.avg_score => a.total_tests >= b.total_tests
                /\ (a.avg_score = b.avg_score /\ a.total_tests = b.total_tests)
                    => a.total_time <= b.total_time

\* a page that shows two students tied on the average and on the number of
\* tests, the quicker one first, and a third student below them
C14_Witness ==
    /\ view.op = "get_leaderboard"
    /\ Len(view.out.leaderboard) >= 2
    /\ RowBehind(1).avg_score = RowBehind(2).avg_score
    /\ RowBehind(1).total_tests = RowBehind(2).total_tests
    /\ RowBehind(1).total_time < RowBehind(2).total_time
    /\ view.out.pagination.total_count = 3

\* sum(score) / sum(total_questions) * 100 over the attempts of the user of
\* the i-th entry that match the company filter of the view
WeightedAverage(i) ==
    LET S == {k \in 1..Len(attempts) :
                /\ attempts[k].user_id = view.out.leaderboard[i].user_id
                /\ (view.company_filter = <<>>
                    \/ tests[attempts[k].test_id].company = view.company_filter)}
        scores == [k \in S |-> FInt(attempts[k].score)]
        totals == [k \in S |-> FInt(attempts[k].total_questions)]
    IN  FMul(FDiv(SumOver(S, scores), SumOver(S, totals)), FInt(100))

\* C15: the average score reported for a listed user, by which the user is
\* ranked, is sum(score) / sum(total_questions) * 100 over the user's
\* attempts that match the filters, rounded to two decimals for the entry.
C15_WeightedAverage ==
    view.op = "get_leaderboard" =>
        \A i \in 1..Len(view.out.leaderboard) :
            view.out.leaderboard[i].average_score = Round(WeightedAverage(i), 100)

\* C16: the k-th entry of page `page` of a leaderboard of `limit` entries per
\* page has rank (page - 1) * limit + k (k counted from 1), and a page shows
\* every ranked user its range of ranks covers: the ranks of page 1 are
\* 1..limit, those of page 2 limit+1..2*limit, up to the number of ranked
\* users.
C16_GlobalRanks ==
    view.op = "get_leaderboard" =>
        LET first == (view.page - 1) * view.limit + 1
            last == Min({view.page * view.limit, view.out.pagination.total_count})
        IN  /\ \A k \in 1..Len(view.out.leaderboard) :
                    view.out.leaderboard[k].rank = first + k - 1
            /\ Len(view.out.leaderboard) = IF last >= first THEN last - first + 1 ELSE 0

\* the second page of a leaderboard of three users, two per page: one entry,
\* of rank 3
C16_Witness ==
    /\ view.op = "get_leaderboard"
    /\ view.page = 2
    /\ view.limit = 2
    /\ Len(view.out.leaderboard) = 1
    /\ view.out.leaderboard[1].rank = 3

-----------------------------------------------------------------------------
(* PositionSpec: the position lookup over a database where up to four     *)
(* users, the admin among them, have submitted tests, so that the window  *)
(* of nearby competitors can leave entries of the leaderboard out.        *)

\* a profile for each of the users 1, 2, 3, 4
SubmittedByFour ==
    {<<p1, p2, p3, p4>> : p1 \in {ProfileA, ProfileTop},
                          p2 \in {ProfileQuick, ProfileB},
                          p3 \in {ProfileTwo, ProfileB, ProfileTop},
                          p4 \in {ProfileNone, ProfileA, ProfileTop}}

PositionInit ==
    /\ now = 0
    /\ tests = LeaderTests
    /\ questions = LeaderQuestions
    /\ \E ps \in SubmittedByFour :
        /\ attempts = AttemptsOf(1, ps[1]) \o AttemptsOf(2, ps[2])
                        \o AttemptsOf(3, ps[3]) \o AttemptsOf(4, ps[4])
        /\ metrics = {MetricAfter(u, ps[u]) : u \in {v \in 1..4 : ps[v] # <<>>}}
        /\ hist = [key \in (1..4) \X Subjects |->
                    IF key[2] = "Quant" THEN HistoryAfter(ps[key[1]]) ELSE NoHistory]
    /\ gen = <<>>
    /\ sub = <<>>
    /\ served = [k \in Companies \X Years |-> 0]
    /\ view = NoView

PositionNext ==
    \E u \in 1..Len(Users), f \in FilterChoices :
        GetUserLeaderboardPosition(u, f[1], f[2], f[3])

PositionSpec == PositionInit /\ [][PositionNext]_vars

\* the entry of the full leaderboard at rank r, as the caller of the view
\* is to see it among the nearby competitors: without user_id when it is
\* another user's, flagged is_current_user when it is the caller's
ShownToCaller(r) ==
    LET e == view.full_leaderboard.leaderboard[r]
    IN  IF e.user_id = view.user_id
        THEN [f \in DOMAIN e \cup {"is_current_user"} |->
                IF f = "is_current_user" THEN TRUE ELSE e[f]]
        ELSE [f \in DOMAIN e \ {"user_id"} |-> e[f]]

\* the ranks at which the caller of the view is on the full leaderboard
CallerRanks ==
    {r \in 1..Len(view.full_leaderboard.leaderboard) :
        view.full_leaderboard.leaderboard[r].user_id = view.user_id}

\* C17: for a caller at rank p of the N entries of the filtered leaderboard,
\* the lookup returns user_position = p and as nearby_competitors exactly
\* the entries of ranks max(1, p-2)..min(N, p+2) in rank order, every other
\* user's entry without user_id and the caller's own flagged
\* is_current_user; for a caller not on the leaderboard it returns
\* user_position None, no nearby competitors and the message that asks to
\* complete at least 3 tests.
C17_PositionLookup ==
    view.op = "get_user_leaderboard_position" =>
        LET board == view.full_leaderboard.leaderboard
            N == Len(board)
        IN  /\ \A r \in 1..N : board[r].rank = r
            /\ Cardinality(CallerRanks) <= 1
            /\ \A p \in CallerRanks :
                LET lo == IF p - 2 >= 1 THEN p - 2 ELSE 1
                    hi == Min({N, p + 2})
                    near == view.out.nearby_competitors
                IN  /\ view.out.user_position = p
                    /\ Len(near) = hi - lo + 1
                    /\ \A k \in 1..Len(near) :
                        /\ near[k] = ShownToCaller(lo + k - 1)
                        /\ near[k].rank = lo + k - 1
                        /\ lo + k - 1 # p => "user_id" \notin DOMAIN near[k]
                        /\ lo + k - 1 = p => near[k].is_current_user = TRUE
            /\ CallerRanks = {} =>
                /\ view.out.user_position = 0
                /\ view.out.nearby_competitors = <<>>
                /\ view.out.message
                    = "User not found in leaderboard. Complete at least 3 tests to appear."

\* the caller is last of four: the window leaves the first entry out
C17_Witness ==
    /\ view.op = "get_user_leaderboard_position"
    /\ Len(view.full_leaderboard.leaderboard) = 4
    /\ view.out.user_position = 4
    /\ Len(view.out.nearby_competitors) = 3
    /\ view.out.nearby_competitors[1].rank = 2
    /\ view.out.nearby_competitors[3].is_current_user

\* the caller is first of four: the window leaves the last entry out
C17_WitnessFirst ==
    /\ view.op = "get_user_leaderboard_position"
    /\ Len(view.full_leaderboard.leaderboard) = 4
    /\ view.out.user_position = 1
    /\ Len(view.out.nearby_competitors) = 3

\* the caller has too few attempts under the filters of the request
C17_WitnessNotRanked ==
    /\ view.op = "get_user_leaderboard_position"
    /\ view.full_leaderboard.leaderboard # <<>>
    /\ view.out.user_position = 0

-----------------------------------------------------------------------------
(* test_routes.py: get_test_results and get_test, the two handlers that    *)
(* read a test back.  The handlers run behind jwt_required_custom: the     *)
(* caller is a row of Users.  Timestamps, the topic of a question and the  *)
(* pattern_data of a test, which the rows of the model do not carry, are   *)
(* left out of the responses.                                              *)

ErrorResponse(status, message, code) ==
    [status |-> status, error |-> TRUE, message |-> message, code |-> code]

AttemptNotFound == ErrorResponse(404, "Test attempt not found or access denied", "ATTEMPT_NOT_FOUND")
TestNotFound == ErrorResponse(404, "Test not found", "TEST_NOT_FOUND")
NoQuestions == ErrorResponse(404, "No questions found for this test", "NO_QUESTIONS")
InsufficientPermissions ==
    ErrorResponse(403, "Insufficient permissions to view answers", "INSUFFICIENT_PERMISSIONS")
InternalError == ErrorResponse(500, "Internal server error", "INTERNAL_ERROR")

\* as CalculatePercentage, without the test of total_questions
CalculatePercentageUnguarded(a) ==
    FMul(FDiv(FInt(a.score), FInt(a.total_questions)), FInt(100))

\* TestAttempt.calculate_percentage
CalculatePercentage(a) ==
    IF a.total_questions > 0
    THEN FMul(FDiv(FInt(a.score), FInt(a.total_questions)), FInt(100))
    ELSE FInt(0)

\* as FindAttempt, without the filter on the owner
FindAttemptOfAnyUser(attempt_id, test_id, user_id) ==
    {i \in 1..Len(attempts) : i = attempt_id /\ attempts[i].test_id = test_id}

\* TestAttempt.query.filter_by(id=..., test_id=..., user_id=...)
FindAttempt(attempt_id, test_id, user_id) ==
    {i \in 1..Len(attempts) :
        i = attempt_id /\ attempts[i].test_id = test_id /\ attempts[i].user_id = user_id}

\* user_answers.get(str(question.id), ''): .strip() raises AttributeError on
\* a value that is not a string
StoredAnswer(answers, qid) == Get(answers, IntStr(qid), JStr(<<>>))

DetailRaises(ids, answers) ==
    \E k \in 1..Len(ids) : StoredAnswer(answers, ids[k]).t # "str"

NoDetail == [results |-> <<>>, section_scores |-> <<>>]

\* the loop "for question in questions" of get_test_results, from the last
\* question back
RECURSIVE DetailLoop(_, _, _)
DetailLoop(qs, ids, answers) ==
    IF ids = <<>> THEN NoDetail
    ELSE LET qid == ids[Len(ids)]
             acc == DetailLoop(qs, SubSeq(ids, 1, Len(ids) - 1), answers)
             user_answer == Upper(Strip(StoredAnswer(answers, qid).v))
             correct_answer == Upper(Strip(qs[qid].correct_answer))
             is_correct == user_answer = correct_answer
         IN  [results |-> Append(acc.results,
                                 [question_id |-> qid, section |-> qs[qid].section,
                                  question_text |-> qs[qid].question_text,
                                  options |-> qs[qid].options,
                                  user_answer |-> user_answer,
                                  correct_answer |-> correct_answer,
                                  is_correct |-> is_correct,
                                  explanation |-> qs[qid].explanation,
                                  difficulty |-> qs[qid].difficulty]),
              section_scores |-> Tally(acc.section_scores, qs[qid].section, is_correct)]

FormattedSectionScores(scores) ==
    [k \in 1..Len(scores) |->
        [section |-> scores[k].section, score |-> scores[k].correct,
         total |-> scores[k].total,
         percentage |-> IF scores[k].total > 0
                        THEN Round(FMul(Frac(scores[k].correct, scores[k].total), FInt(100)), 10)
                        ELSE FInt(0)]]

ResultsResponse(user_id, test_id, attempt_id) ==
    LET found == FindAttempt(attempt_id, test_id, user_id)
        test_attempt == attempts[CHOOSE i \in found : TRUE]
        ids == QuestionIds(questions, test_id)
        detail == DetailLoop(questions, ids, test_attempt.answers)
    IN  IF found = {} THEN AttemptNotFound
        ELSE IF test_id \notin 1..Len(tests) THEN TestNotFound
        ELSE IF DetailRaises(ids, test_attempt.answers) THEN InternalError
        ELSE [status |-> 200,
              attempt_id |-> attempt_id,
              test_info |-> [test_id |-> test_id, company |-> tests[test_id].company,
                             year |-> tests[test_id].year],
              score |-> test_attempt.score,
              total_questions |-> test_attempt.total_questions,
              percentage |-> CalculatePercentage(test_attempt),
              time_taken |-> test_attempt.time_taken,
              results |-> detail.results,
              section_scores |-> FormattedSectionScores(detail.section_scores)]

GetTestResults(user_id, test_id, attempt_id) ==
    /\ view' = [op |-> "get_test_results", user_id |-> user_id, test_id |-> test_id,
                attempt_id |-> attempt_id,
                out |-> ResultsResponse(user_id, test_id, attempt_id)]
    /\ UNCHANGED <<now, tests, questions, attempts, metrics, gen, sub, served, hist>>

\* the characters of a section name
SectionText(section) ==
    IF section = "Quant" THEN <<"Q", "u", "a", "n", "t">>
    ELSE IF section = "Logic" THEN <<"L", "o", "g", "i", "c">>
    ELSE <<"G", "e", "n", "e", "r", "a", "l">>

NoSection == <<>>

\* as ToDict, with the answer in every dict
ToDictWithAnswer(qid, q, include_answer) ==
    [id |-> qid, section |-> q.section, question_text |-> q.question_text,
     options |-> q.options, difficulty |-> q.difficulty,
     correct_answer |-> q.correct_answer, explanation |-> q.explanation]

\* Question.to_dict(include_answer)
ToDict(qid, q, include_answer) ==
    IF include_answer
    THEN [id |-> qid, section |-> q.section, question_text |-> q.question_text,
          options |-> q.options, difficulty |-> q.difficulty,
          correct_answer |-> q.correct_answer, explanation |-> q.explanation]
    ELSE [id |-> qid, section |-> q.section, question_text |-> q.question_text,
          options |-> q.options, difficulty |-> q.difficulty]

\* the keys of sections_data, in insertion order
RECURSIVE SectionsSeen(_)
SectionsSeen(ids) ==
    IF ids = <<>> THEN <<>>
    ELSE LET rest == SectionsSeen(SubSeq(ids, 1, Len(ids) - 1))
             section_name == questions[ids[Len(ids)]].section
         IN  IF \E k \in 1..Len(rest) : rest[k] = section_name THEN rest
             ELSE Append(rest, section_name)

\* what random.shuffle can leave of a list
Shuffles(list) ==
    {[k \in 1..Len(list) |-> list[f[k]]] :
        f \in {g \in [1..Len(list) -> 1..Len(list)] :
                \A i, j \in 1..Len(list) : g[i] = g[j] => i = j}}

\* the questions the query of get_test selects
SelectedIds(test_id, section_filter) ==
    SelectSeq(QuestionIds(questions, test_id),
              LAMBDA i : section_filter = NoSection
                         \/ ILike(SectionText(questions[i].section), section_filter))

\* the responses of get_test with status 200: one for each outcome of the
\* shuffles
TestResponses(user_id, test_id, include_answers, randomize, section_filter) ==
    LET ids == SelectedIds(test_id, section_filter)
        names == SectionsSeen(ids)
        Dicts(section_name) ==
            LET sel == SelectSeq(ids, LAMBDA i : questions[i].section = section_name)
            IN  [k \in 1..Len(sel) |-> ToDict(sel[k], questions[sel[k]], include_answers)]
        Lists(section_name) ==
            IF randomize THEN Shuffles(Dicts(section_name)) ELSE {Dicts(section_name)}
        Formatted(k) ==
            {[section_name |-> names[k], question_count |-> Len(l), questions |-> l] :
                l \in Lists(names[k])}
        user_attempts ==
            Cardinality({i \in 1..Len(attempts) :
                            attempts[i].user_id = user_id /\ attempts[i].test_id = test_id})
    IN  {[status |-> 200, test_id |-> test_id, company |-> tests[test_id].company,
          year |-> tests[test_id].year, total_questions |-> Len(ids),
          sections |-> sections,
          metadata |-> [user_attempts |-> user_attempts]] :
            sections \in {f \in [1..Len(names) -> UNION {Formatted(k) : k \in 1..Len(names)}] :
                            \A k \in 1..Len(names) : f[k] \in Formatted(k)}}

GetTest(user_id, test_id, include_answers, randomize, section_filter) ==
    /\ \E out \in
            IF include_answers /\ ~Users[user_id].is_admin THEN {InsufficientPermissions}
            ELSE IF test_id \notin 1..Len(tests) THEN {TestNotFound}
            ELSE IF SelectedIds(test_id, section_filter) = <<>> THEN {NoQuestions}
            ELSE TestResponses(user_id, test_id, include_answers, randomize, section_filter) :
        view' = [op |-> "get_test", user_id |-> user_id, test_id |-> test_id,
                 include_answers |-> include_answers, randomize |-> randomize,
                 section_filter |-> section_filter, out |-> out]
    /\ UNCHANGED <<now, tests, questions, attempts, metrics, gen, sub, served, hist>>

-----------------------------------------------------------------------------
(* ResultsSpec and TestSpec: users read results and tests back from a     *)
(* database that holds two tests made by an admin and what some of the    *)
(* users have submitted on them.                                          *)

ReadQuiz == QuizPair \o <<AdminQ("Logic", <<"C">>)>>

ReadTests ==
    <<[company |-> TCS, year |-> 2025, created_at |-> 0],
      [company |-> INFY, year |-> 2025, created_at |-> 0]>>

ReadQuestions ==
    [i \in 1..Len(ReadQuiz) |-> AdminRow(1, ReadQuiz[i])]
        \o [i \in 1..Len(QuizMixed) |-> AdminRow(2, QuizMixed[i])]

Submission(user, test_id, answers) == [user |-> user, test_id |-> test_id, answers |-> answers]

SubmissionFull ==
    Submission(1, 1, (<<"1">> :> JStr(<<"A">>)) @@ (<<"2">> :> JStr(<<"B">>))
                        @@ (<<"3">> :> JStr(<<"C">>)))
SubmissionPart == Submission(2, 1, (<<"1">> :> JStr(<<"A">>)))
SubmissionBlank == Submission(2, 2, (<<"4">> :> JStr(<<"B">>)) @@ (<<"5">> :> JStr(<<>>)))
SubmissionNull == Submission(3, 2, (<<"4">> :> JNull))

\* what has been submitted, in order of commit
ReadSubmitted ==
    {<<>>, <<SubmissionFull>>, <<SubmissionFull, SubmissionPart>>,
     <<SubmissionPart, SubmissionFull>>, <<SubmissionBlank, SubmissionFull>>,
     <<SubmissionFull, SubmissionBlank, SubmissionNull>>}

\* the committed rows after submit_test has served the submissions one
\* after another
RECURSIVE CommittedAfter(_)
CommittedAfter(subs) ==
    IF subs = <<>>
    THEN [attempts |-> <<>>, metrics |-> {},
          hist |-> [key \in (1..Len(Users)) \X Subjects |-> NoHistory]]
    ELSE LET db == CommittedAfter(SubSeq(subs, 1, Len(subs) - 1))
             s == subs[Len(subs)]
             ids == QuestionIds(ReadQuestions, s.test_id)
             score == ScoreLoop(ReadQuestions, ids, s.answers)
             scs == score.section_scores
             old == {k \in 1..Len(scs) : MetricOf(db.metrics, s.user, scs[k].section) # {}}
             pupd == {UpdateMetrics(CHOOSE m \in MetricOf(db.metrics, s.user, scs[k].section) : TRUE,
                                    scs[k].correct, scs[k].total) : k \in old}
             pnew == {NewMetric(s.user, scs[k]) : k \in (1..Len(scs)) \ old}
         IN  [attempts |-> Append(db.attempts,
                                  [user_id |-> s.user, test_id |-> s.test_id,
                                   score |-> score.correct_answers,
                                   total_questions |-> Len(ids), time_taken |-> 60,
                                   answers |-> s.answers]),
              metrics |-> ApplyMetrics(db.metrics, pupd, pnew),
              hist |-> Record(db.hist, s.user, scs)]

ReadInit ==
    /\ now = 0
    /\ tests = ReadTests
    /\ questions = ReadQuestions
    /\ \E subs \in ReadSubmitted :
        /\ attempts = CommittedAfter(subs).attempts
        /\ metrics = CommittedAfter(subs).metrics
        /\ hist = CommittedAfter(subs).hist
    /\ gen = <<>>
    /\ sub = <<>>
    /\ served = [k \in Companies \X Years |-> 0]
    /\ view = NoView

SectionFilters == {NoSection, <<"q", "u">>, <<"O">>, <<"z">>}

\* ResultsSpec: the users ask for results, of attempts of their own, of
\* others' and of none
ResultsNext ==
    \E u \in 1..Len(Users), t \in 1..3, a \in 1..4 : GetTestResults(u, t, a)

ResultsSpec == ReadInit /\ [][ResultsNext]_vars

\* the callers of get_test: a student and the admin
TestCallers == {2, 4}

\* TestSpec: a student and the admin fetch tests
TestNext ==
    \E u \in TestCallers, t \in 1..3, include_answers \in BOOLEAN, randomize \in BOOLEAN,
       section_filter \in SectionFilters :
        GetTest(u, t, include_answers, randomize, section_filter)

TestSpec == ReadInit /\ [][TestNext]_vars

\* C18: get_test_results for an attempt that belongs to another user gives
\* the caller the very response it gives for an attempt id that does not
\* exist: the one not-found response, which carries nothing of the attempt.
C18_OwnershipHidden ==
    view.op = "get_test_results" =>
        /\ (view.attempt_id \notin 1..Len(attempts)) => view.out = AttemptNotFound
        /\ (/\ view.attempt_id \in 1..Len(attempts)
            /\ attempts[view.attempt_id].user_id # view.user_id) => view.out = AttemptNotFound
        /\ view.out.status = 200 =>
            /\ view.attempt_id \in 1..Len(attempts)
            /\ attempts[view.attempt_id].user_id = view.user_id

\* a user asks for another user's attempt, under the test it was made on
C18_Witness ==
    /\ view.op = "get_test_results"
    /\ view.attempt_id \in 1..Len(attempts)
    /\ attempts[view.attempt_id].user_id # view.user_id
    /\ attempts[view.attempt_id].test_id = view.test_id
    /\ view.out = AttemptNotFound

\* the question dicts of a get_test response
ServedQuestions ==
    UNION {{view.out.sections[k].questions[i] : i \in 1..Len(view.out.sections[k].questions)} :
            k \in 1..Len(view.out.sections)}

\* C19: a get_test response to a caller who is not an admin carries no
\* correct_answer and no explanation, whatever include_answers, randomize
\* and section are, and include_answers=true from such a caller is refused
\* with the permission error; the questions of a response carry the two
\* fields only when the caller is an admin who set include_answers.
C19_AnswersWithheld ==
    view.op = "get_test" =>
        /\ (~Users[view.user_id].is_admin /\ view.include_answers)
            => view.out = InsufficientPermissions
        /\ view.out.status # 200
            => DOMAIN view.out = {"status", "error", "message", "code"}
        /\ view.out.status = 200 =>
            \A q \in ServedQuestions :
                IF Users[view.user_id].is_admin /\ view.include_answers
                THEN {"correct_answer", "explanation"} \subseteq DOMAIN q
                ELSE {"correct_answer", "explanation"} \cap DOMAIN q = {}

\* a student gets a shuffled section of a test: the second question of the
\* test is served first
C19_Witness ==
    /\ view.op = "get_test"
    /\ ~Users[view.user_id].is_admin
    /\ view.randomize
    /\ view.section_filter # NoSection
    /\ view.out.status = 200
    /\ Len(view.out.sections[1].questions) = 2
    /\ view.out.sections[1].questions[1].id = 2

\* a student who sets include_answers is refused
C19_WitnessRefused ==
    /\ view.op = "get_test"
    /\ ~Users[view.user_id].is_admin
    /\ view.include_answers
    /\ view.test_id \in 1..Len(tests)
    /\ view.out.status = 403

\* the admin is served the answers
C19_WitnessAdmin ==
    /\ view.op = "get_test"
    /\ Users[view.user_id].is_admin
    /\ view.out.status = 200
    /\ \E q \in ServedQuestions : "correct_answer" \in DOMAIN q

-----------------------------------------------------------------------------
(* PercentSpec: one worker serving submissions of one user, and            *)
(* calculate_percentage called on the attempts the database holds and on   *)
(* TestAttempt objects with no questions, which submit_test never makes.   *)

EmptyAttempt(score) ==
    [user_id |-> 1, test_id |-> 1, score |-> score, total_questions |-> 0,
     time_taken |-> 60, answers |-> NoAnswers]

PercentageOf(a) ==
    /\ view' = [op |-> "calculate_percentage", attempt |-> a, out |-> CalculatePercentage(a)]
    /\ UNCHANGED <<now, tests, questions, attempts, metrics, gen, sub, served, hist>>

PercentNext ==
    \/ AdminCreateTest(TCS, 2025, QuizPair)
    \/ \E s \in DOMAIN sub, t \in 1..MaxTests :
            \E a \in AnswerMaps(t, PlainAnswers) : SubStart(s, 1, t, Body(a))
    \/ \E s \in DOMAIN sub : SubMetric(s)
    \/ \E s \in DOMAIN sub : SubCommit(s)
    \/ \E i \in 1..Len(attempts) : PercentageOf(attempts[i])
    \/ \E score \in {0, 2} : PercentageOf(EmptyAttempt(score))

PercentSpec == SubmitInit /\ [][PercentNext]_vars

\* C20: every attempt the database holds has 0 <= score <= total_questions,
\* and its percentage lies between 0 and 100 when total_questions > 0;
\* calculate_percentage returns 0, and does not divide, for an attempt with
\* total_questions = 0.
C20_PercentageBounds ==
    /\ \A i \in 1..Len(attempts) :
        /\ 0 <= attempts[i].score
        /\ attempts[i].score <= attempts[i].total_questions
        /\ attempts[i].total_questions > 0 =>
            /\ ~FLess(CalculatePercentage(attempts[i]), FInt(0))
            /\ ~FLess(FInt(100), CalculatePercentage(attempts[i]))
    /\ view.op = "calculate_percentage" =>
        /\ view.attempt.total_questions = 0 => view.out = FInt(0)
        /\ view.attempt.total_questions > 0 =>
            /\ view.out = Frac(100 * view.attempt.score, view.attempt.total_questions)
            /\ ~FLess(view.out, FInt(0))
            /\ ~FLess(FInt(100), view.out)

\* the database holds an attempt with every answer right and one with none
\* right, and the percentage of an object with no questions was asked for
C20_Witness ==
    /\ view.op = "calculate_percentage"
    /\ view.attempt.total_questions = 0
    /\ view.attempt.score = 2
    /\ \E i \in 1..Len(attempts) : attempts[i].score = attempts[i].total_questions
    /\ \E i \in 1..Len(attempts) : attempts[i].score = 0

\* the percentage of a persisted attempt with every answer right is 100
C20_WitnessFull ==
    /\ view.op = "calculate_percentage"
    /\ view.attempt.total_questions = 2
    /\ view.out = FInt(100)

-----------------------------------------------------------------------------
(* NameSpec: _anonymize_name applied to None and to every text of up to    *)
(* MaxNameLen characters over two letters and the blank.                   *)

MaxNameLen == 5

NameChars == {"a", "B", " "}

Names == {NameNone} \cup UNION {[1..n -> NameChars] : n \in 0..MaxNameLen}

AnonymizeCall(full_name) ==
    /\ view' = [op |-> "anonymize_name", full_name |-> full_name,
                out |-> AnonymizeName(full_name)]
    /\ UNCHANGED <<now, tests, questions, attempts, metrics, gen, sub, served, hist>>

NameInit ==
    /\ now = 0
    /\ tests = <<>>
    /\ questions = <<>>
    /\ attempts = <<>>
    /\ metrics = {}
    /\ gen = <<>>
    /\ sub = <<>>
    /\ served = <<>>
    /\ hist = <<>>
    /\ view = NoView

NameNext == \E full_name \in Names : AnonymizeCall(full_name)

NameSpec == NameInit /\ [][NameNext]_vars

\* where the words of a text start: a character that is not a blank, at the
\* start of the text or after a blank
WordStarts(s) == {i \in 1..Len(s) : s[i] # " " /\ (i = 1 \/ s[i - 1] = " ")}

\* the word of s that starts at i
WordAt(s, i) ==
    LET stops == {j \in i..Len(s) : s[j] = " "}
    IN  SubSeq(s, i, IF stops = {} THEN Len(s) ELSE Min(stops) - 1)

\* C21: _anonymize_name returns 'Anonymous' for a name that is None, empty
\* or all blanks; the word itself for a name of one word; and otherwise the
\* first word, a blank, the first character of the last word and a full
\* stop, whatever the words in between are.
C21_NameRedaction ==
    view.op = "anonymize_name" =>
        LET s == view.full_name
            starts == IF s = NameNone THEN {} ELSE WordStarts(s)
            first == Min(starts)
            last == CHOOSE i \in starts : \A j \in starts : j <= i
        IN  /\ starts = {} => view.out = Anonymous
            /\ Cardinality(starts) = 1 => view.out = WordAt(s, first)
            /\ Cardinality(starts) >= 2
                => view.out = WordAt(s, first) \o <<" ", s[last], ".">>

\* a name of three words, the second and the third with different initials
C21_Witness ==
    /\ view.op = "anonymize_name"
    /\ view.full_name = <<"B", " ", "a", " ", "B">>
    /\ view.out = <<"B", " ", "B", ".">>

\* a name that is None and a name of blanks only
C21_WitnessNone ==
    /\ view.op = "anonymize_name"
    /\ view.full_name \in {NameNone, <<" ", " ">>}
    /\ view.out = Anonymous

-----------------------------------------------------------------------------
(* google_search_client.py: research_company_patterns, one request of      *)
(* _retry_api_call per step.  gen holds the call: how many requests went   *)
(* out, how each attempt failed, and the delays slept.                     *)

ResearchMaxRetries == 3

RetryDelay == 2

RECURSIVE Pow(_, _)
Pow(b, e) == IF e = 0 THEN 1 ELSE b * Pow(b, e - 1)

\* how requests.post, raise_for_status and response.json can end:
\* requests.exceptions.Timeout, another RequestException (the connection
\* fails), and an exception that is not a RequestException
RequestFailures == {"timeout", "connection", "unexpected"}

\* the responses with status 200: one with text, one with no candidates
RequestResponses == {"text", "no_candidates"}

\* the except clauses of _make_research_request: what it raises for a
\* failure of the request
RaisedByRequest(failure) ==
    CASE failure = "timeout" ->
            Exc("GoogleSearchAPIError", <<"Google Search request timed out", failure>>)
      [] failure = "connection" ->
            Exc("GoogleSearchAPIError", <<"Google Search request failed", failure>>)
      [] failure = "unexpected" ->
            Exc("GoogleSearchAPIError", <<"Unexpected error in research request", failure>>)

\* as RetryDelayFor, sleeping on the x3 schedule after every failure
RetryDelayTripled(e, attempt) == RetryDelay * Pow(3, attempt)

\* the except clauses of _retry_api_call; attempt counts from 0
RetryDelayFor(e, attempt) ==
    IF e.class = "Timeout" THEN RetryDelay * Pow(3, attempt)
    ELSE RetryDelay * Pow(2, attempt)

IdleResearch ==
    [pc |-> "idle", company |-> NoName, max_retries |-> ResearchMaxRetries,
     attempt |-> 0,             \* the loop variable of _retry_api_call
     requests |-> 0,            \* calls of requests.post
     failures |-> <<>>,         \* how each failed attempt failed
     sleeps |-> <<>>,           \* the delays of time.sleep, in order
     last_exception |-> Exc("None", <<>>),
     error |-> Exc("None", <<>>),
     success |-> FALSE]

ResearchStart(p, company) ==
    /\ gen[p].pc \in {"idle", "done", "error"}
    /\ gen' = [gen EXCEPT ![p] = [IdleResearch EXCEPT !.pc = "attempt", !.company = company,
                                                   !.max_retries = gen[p].max_retries]]
    /\ UNCHANGED <<now, tests, questions, attempts, metrics, sub, served, hist, view>>

\* as ResearchAttemptFails, giving up after the first failure
ResearchAttemptFailsOnce(p, failure) ==
    LET g == gen[p]
        e == RaisedByRequest(failure)
    IN  /\ g.pc = "attempt"
        /\ gen' = [gen EXCEPT ![p] =
                [g EXCEPT !.requests = @ + 1, !.failures = Append(@, failure),
                          !.last_exception = e, !.attempt = @ + 1, !.pc = "error",
                          !.error = Exc("GoogleSearchAPIError",
                                        <<"Failed to research", "Research call failed after attempts">>
                                            \o e.message)]]
        /\ UNCHANGED <<now, tests, questions, attempts, metrics, sub, served, hist, view>>

\* one turn of the loop of _retry_api_call in which the request fails: the
\* except clause, its sleep and, after the last attempt, the raise, which
\* research_company_patterns wraps
ResearchAttemptFails(p, failure) ==
    LET g == gen[p]
        e == RaisedByRequest(failure)
    IN  /\ g.pc = "attempt"
        /\ gen' = [gen EXCEPT ![p] =
                IF g.attempt < g.max_retries - 1
                THEN [g EXCEPT !.requests = @ + 1, !.failures = Append(@, failure),
                               !.last_exception = e,
                               !.sleeps = Append(@, RetryDelayFor(e, g.attempt)),
                               !.attempt = @ + 1]
                ELSE [g EXCEPT !.requests = @ + 1, !.failures = Append(@, failure),
                               !.last_exception = e, !.attempt = @ + 1, !.pc = "error",
                               !.error = Exc("GoogleSearchAPIError",
                                             <<"Failed to research",
                                               "Research call failed after attempts">>
                                                 \o e.message)]]
        /\ UNCHANGED <<now, tests, questions, attempts, metrics, sub, served, hist, view>>

\* a turn in which the request returns: _retry_api_call returns the
\* response and _extract_research_content reads it
ResearchAttemptReturns(p, response) ==
    LET g == gen[p]
    IN  /\ g.pc = "attempt"
        /\ gen' = [gen EXCEPT ![p] =
                IF response = "text"
                THEN [g EXCEPT !.requests = @ + 1, !.pc = "done", !.success = TRUE]
                ELSE [g EXCEPT !.requests = @ + 1, !.pc = "error",
                               !.error = Exc("GoogleSearchAPIError",
                                             <<"Failed to research", "Content extraction failed",
                                               "No candidates in research response">>)]]
        /\ UNCHANGED <<now, tests, questions, attempts, metrics, sub, served, hist, view>>

\* ResearchSpec: calls of research_company_patterns, one after another, on
\* a client configured with 1 to ResearchMaxRetries attempts
ResearchInit ==
    /\ now = 0
    /\ tests = <<>>
    /\ questions = <<>>
    /\ attempts = <<>>
    /\ metrics = {}
    /\ \E n \in 1..ResearchMaxRetries :
            gen = [p \in {"r1"} |-> [IdleResearch EXCEPT !.max_retries = n]]
    /\ sub = <<>>
    /\ served = <<>>
    /\ hist = <<>>
    /\ view = NoView

ResearchNext ==
    \/ \E p \in DOMAIN gen, company \in {TCS, INFY} : ResearchStart(p, company)
    \/ \E p \in DOMAIN gen, failure \in RequestFailures : ResearchAttemptFails(p, failure)
    \/ \E p \in DOMAIN gen, response \in RequestResponses : ResearchAttemptReturns(p, response)

ResearchSpec == ResearchInit /\ [][ResearchNext]_vars

\* C22: a call of research_company_patterns sends at most max_retries
\* requests, sends none after a request has returned, sleeps between two
\* attempts only, and, when every attempt has failed, raises a
\* GoogleSearchAPIError that carries the exception of the last attempt.
C22_BoundedRetry ==
    \A p \in DOMAIN gen :
        LET g == gen[p]
        IN  /\ g.requests <= g.max_retries
            /\ Len(g.failures) <= g.requests
            /\ g.requests <= Len(g.failures) + 1
            /\ g.pc = "attempt" => (Len(g.failures) = g.requests /\ g.requests < g.max_retries)
            /\ g.pc = "attempt" => Len(g.sleeps) = g.requests
            /\ g.pc \in {"done", "error"} => Len(g.sleeps) = g.requests - 1
            /\ g.success => (g.pc = "done" /\ g.requests = Len(g.failures) + 1)
            /\ (g.pc = "error" /\ Len(g.failures) = g.requests) =>
                /\ g.requests = g.max_retries
                /\ g.error.class = "GoogleSearchAPIError"
                /\ g.error.message[Len(g.error.message)] = g.failures[Len(g.failures)]
                /\ g.last_exception = RaisedByRequest(g.failures[Len(g.failures)])

\* three attempts failed, each in another way, with two sleeps between them
C22_Witness ==
    \E p \in DOMAIN gen :
        /\ gen[p].pc = "error"
        /\ gen[p].failures = <<"connection", "timeout", "unexpected">>
        /\ Len(gen[p].sleeps) = 2

\* the second attempt returned: no third request
C22_WitnessStops ==
    \E p \in DOMAIN gen :
        /\ gen[p].max_retries = 3
        /\ gen[p].success
        /\ gen[p].requests = 2

\* C23: the delay slept after attempt k is retry_delay * 3^(k-1) when the
\* attempt failed because the request timed out, and retry_delay * 2^(k-1)
\* when it failed in another way.
C23_TimeoutBackoff ==
    \A p \in DOMAIN gen :
        \A k \in 1..Len(gen[p].sleeps) :
            gen[p].sleeps[k] = IF gen[p].failures[k] = "timeout"
                               THEN RetryDelay * Pow(3, k - 1)
                               ELSE RetryDelay * Pow(2, k - 1)

\* C24: a request that fails with an error that is not a network failure
\* is the last request of the call.
C24_NoRetryOfOtherErrors ==
    \A p \in DOMAIN gen :
        \A k \in 1..Len(gen[p].failures) :
            gen[p].failures[k] = "unexpected" => gen[p].requests = k

-----------------------------------------------------------------------------
(* SemaphoreSpec: a batch of more companies than the semaphore admits.     *)
(* SemaphoreFairSpec adds that the event loop keeps running what is ready  *)
(* and that the clients return or raise: some enabled step is taken.       *)

BatchSize == 4

SemaphoreLists ==
    {[i \in 1..BatchSize |-> TCS],
     [i \in 1..BatchSize |-> IF i = BatchSize THEN Blank ELSE TCS]}

SemaphoreInit ==
    /\ now = 0
    /\ tests = <<>>
    /\ questions = <<>>
    /\ attempts = <<>>
    /\ metrics = {}
    /\ gen \in {[i \in 1..BatchSize |-> [IdleGen EXCEPT !.company = cs[i]]] :
                    cs \in SemaphoreLists}
    /\ sub = <<>>
    /\ served = [k \in Companies \X Years |-> 0]
    /\ hist = <<>>
    /\ view = NoView

SemaphoreNext ==
    \/ \E i \in DOMAIN gen : BatchStart(i)
    \/ \E i \in DOMAIN gen, ok \in BOOLEAN : ~Saving /\ GenResearch(i, ok)
    \/ \E i \in DOMAIN gen : ~Saving /\ GenSynthResponse(i, Json(GoodOne))
    \/ \E i \in DOMAIN gen : ~Saving /\ GenSaveFlush(i)
    \/ \E i \in DOMAIN gen : GenSaveAdd(i)
    \/ \E i \in DOMAIN gen : GenSaveCommit(i)

SemaphoreSpec == SemaphoreInit /\ [][SemaphoreNext]_vars

SemaphoreFairSpec == SemaphoreSpec /\ WF_vars(SemaphoreNext)

\* C25: at most max_concurrent_operations tasks of a batch are inside the
\* semaphore (in research, synthesis or persist) at any time, and every
\* task that waits for the semaphore acquires it in the end: all tasks
\* start waiting, and a task that has acquired it never waits again.
C25_ConcurrencyBound ==
    /\ [](Cardinality(Holding) <= MaxConcurrentOperations)
    /\ <>(\A i \in 1..BatchSize : gen[i].pc # "idle")

\* three tasks are inside the semaphore and the fourth waits
C25_Witness ==
    /\ Cardinality(Holding) = MaxConcurrentOperations
    /\ \E i \in DOMAIN gen : gen[i].pc = "idle"

\* the fourth task has run its pipeline after waiting
C25_WitnessRan ==
    /\ AllFinished
    /\ \A i \in DOMAIN gen : gen[i].company = TCS
    /\ gen[BatchSize].pc = "done"

\* C26: checked under Spec.  The num_questions of a generate_test result
\* that did not come from the cache is the number of Question rows the
\* database holds for the returned test_id.
C26_ReportedCountIsActual ==
    \A p \in DOMAIN gen :
        (gen[p].pc = "done" /\ ~gen[p].result.from_cache)
            => gen[p].result.num_questions = QuestionCount(questions, gen[p].result.test_id)

\* the tasks of a batch that ask for company c
TasksFor(c) == {i \in DOMAIN gen : gen[i].company = c}

\* C27: checked under BatchSpec, whose calls all have force_regenerate
\* false and year 2025 and run within the cache window.  Of the tasks that
\* ask for the same company, at most one goes past the cache lookup into
\* research and synthesis, and at most one new test of that company is
\* committed.
C27_NoDuplicateGeneration ==
    \A c \in {gen[i].company : i \in DOMAIN gen} :
        /\ Cardinality({i \in TasksFor(c) : gen[i].pc = "research" \/ gen[i].researchCalls > 0}) <= 1
        /\ Cardinality({t \in 1..Len(tests) : tests[t].company = c /\ tests[t].year = 2025}) <= 1

\* C28: checked under Spec.  A generate_test result that came from the
\* cache names a test whose company is the requested company, ignoring
\* case, and whose year is the requested year.
C28_CacheHitOfSameCompany ==
    \A p \in DOMAIN gen :
        (gen[p].pc = "done" /\ gen[p].result.from_cache) =>
            /\ gen[p].result.test_id \in 1..Len(tests)
            /\ Lower(tests[gen[p].result.test_id].company) = Lower(gen[p].company)
            /\ tests[gen[p].result.test_id].year = gen[p].year

\* the view answers the owner of an attempt who asked for it under its test
OwnResultsAsked ==
    /\ view.op = "get_test_results"
    /\ view.attempt_id \in 1..Len(attempts)
    /\ attempts[view.attempt_id].user_id = view.user_id
    /\ attempts[view.attempt_id].test_id = view.test_id

\* what submit_test computed for the attempt the view is about
AtSubmission ==
    ScoreLoop(questions, QuestionIds(questions, view.test_id),
              attempts[view.attempt_id].answers)

\* C29: checked under ResultsSpec.  get_test_results for an attempt reports
\* for every question the is_correct that submit_test reported: as many
\* correct answers as the stored score, and the section scores of the
\* submission.
C29_ResultsAgreeWithSubmit ==
    OwnResultsAsked =>
        /\ view.out.status = 200
        /\ Len(view.out.results) = Len(AtSubmission.results)
        /\ \A k \in 1..Len(view.out.results) :
            /\ view.out.results[k].question_id = AtSubmission.results[k].question_id
            /\ view.out.results[k].is_correct = AtSubmission.results[k].is_correct
        /\ Cardinality({k \in 1..Len(view.out.results) : view.out.results[k].is_correct})
            = attempts[view.attempt_id].score
        /\ Len(view.out.section_scores) = Len(AtSubmission.section_scores)
        /\ \A k \in 1..Len(view.out.section_scores) :
            /\ view.out.section_scores[k].section = AtSubmission.section_scores[k].section
            /\ view.out.section_scores[k].score = AtSubmission.section_scores[k].correct
            /\ view.out.section_scores[k].total = AtSubmission.section_scores[k].total

(* PagesSpec: a client reads the leaderboard page by page, one call of    *)
(* get_leaderboard per page, with the same limit and filters, over the     *)
(* database of PositionSpec. Each call runs its own query.                *)

\* get_leaderboard for page 1; the view starts the list of pages read
GetFirstPage(limit, company_filter, year_filter, branch_filter) ==
    /\ \E o \in QueryOrders(company_filter, year_filter, branch_filter) :
            view' = [op |-> "get_leaderboard_pages",
                     limit |-> limit, company_filter |-> company_filter,
                     year_filter |-> year_filter, branch_filter |-> branch_filter,
                     pages |-> <<LeaderboardOf(o, limit, 1, company_filter, year_filter,
                                               branch_filter)>>]
    /\ UNCHANGED <<now, tests, questions, attempts, metrics, gen, sub, served, hist>>

\* get_leaderboard for the page after the last one read
GetFollowingPage ==
    /\ view.op = "get_leaderboard_pages"
    /\ view.pages[Len(view.pages)].pagination.has_next
    /\ \E o \in QueryOrders(view.company_filter, view.year_filter, view.branch_filter) :
            view' = [view EXCEPT !.pages =
                        Append(@, LeaderboardOf(o, view.limit, Len(view.pages) + 1,
                                                view.company_filter, view.year_filter,
                                                view.branch_filter))]
    /\ UNCHANGED <<now, tests, questions, attempts, metrics, gen, sub, served, hist>>

PagesNext ==
    \/ \E limit \in PageLimits, f \in FilterChoices : GetFirstPage(limit, f[1], f[2], f[3])
    \/ GetFollowingPage

PagesSpec == PositionInit /\ [][PagesNext]_vars

\* the pages 1..total_pages have all been read
AllPagesRead ==
    /\ view.op = "get_leaderboard_pages"
    /\ ~view.pages[Len(view.pages)].pagination.has_next

\* on how many of the pages read the user u is listed, entry by entry
Listings(u) ==
    {<<p, i>> \in (1..Len(view.pages)) \X (1..view.limit) :
        /\ i <= Len(view.pages[p].leaderboard)
        /\ view.pages[p].leaderboard[i].user_id = u}

\* C30: for a fixed data set and any limit, the pages 1..total_pages of
\* get_leaderboard list every eligible user exactly once and no other user,
\* also when users are tied on average score, total tests and total time,
\* and total_count is the number of eligible users
C30_PagesPartition ==
    AllPagesRead =>
        LET G == Grouped(view.company_filter, view.year_filter, view.branch_filter)
        IN  /\ \A p \in 1..Len(view.pages) :
                    view.pages[p].pagination.total_count = Cardinality(G)
            /\ \A u \in 1..Len(Users) :
                    Cardinality(Listings(u)) = (IF u \in G THEN 1 ELSE 0)

====
